---- MODULE Spec2Model ----
(***************************************************************************)
(* A model of zerobrew's installation core: the content-addressed store    *)
(* (zb_io/src/storage/store.rs), the download engine                       *)
(* (zb_io/src/network/download/mod.rs) and the installer orchestrator      *)
(* (zb_io/src/installer/install.rs) with the linker it drives              *)
(* (zb_io/src/cellar/link.rs), the dependency resolver                     *)
(* (zb_core/src/resolve.rs), the linker on its own prefix, and the path    *)
(* validation of archive entries (zb_io/src/extraction/extract.rs).        *)
(*                                                                         *)
(* Each subsystem has its own variables and its own specification; a       *)
(* specification steps one subsystem and leaves the others idle.           *)
(***************************************************************************)
EXTENDS Integers, Sequences, FiniteSets, TLC

(***************************************************************************)
(*                                 STATE                                   *)
(***************************************************************************)

\* The store (PART 1).
VARIABLES
    entry,        \* the directory store/<key>
    tmp,          \* tmp[p]: the directory store/.<key>.tmp.<p>
    badAt,        \* the archive: 0 when valid, else the index of its bad entry
    lockPath,     \* inode linked at locks/<key>.lock, 0 when there is none
    nextIno,      \* next inode number to hand out
    fd,           \* fd[t]: inode of the lock file task t has open, 0 when none
    holder,       \* holder[i]: task holding the flock on inode i, 0 when free
    pc,           \* pc[t]: position of task t inside its current call
    idx,          \* idx[t]: next archive entry task t extracts
    result,       \* result[t]: what task t's last call returned
    unpackCount,  \* number of extractions started (saturating)
    seenPartial   \* some exists() check answered true for a partial directory

storeVars == <<entry, tmp, badAt, lockPath, nextIno, fd, holder, pc, idx,
               result, unpackCount, seenPartial>>

\* The installer, its cellar, prefix and database (PART 2).
VARIABLES
    kegs,            \* keg directories present in the cellar
    opt,             \* opt[k]: the keg <prefix>/opt/<k> points at, or NoKeg
    overlay,         \* overlay[l]: the keg whose file symlink l points at, or NoKeg
    installed_kegs,  \* installed_kegs[n]: the row of install name n, or NoRow
    linked_files,    \* rows of the linked_files table
    store_refs,      \* store_refs[key]: refcount, -1 when there is no row
    storeDirs,       \* keys with a directory under store/
    blobFiles,       \* keys with a blob under blobs/
    ipc,             \* "idle", or "exec" while execute drains its downloads
    pending,         \* plan items whose download result has not arrived
    linkFlag,        \* the link argument of the running execute
    error,           \* execute's local error: the item whose error it holds
    iresult,         \* what the last installer call returned
    returned,        \* the item whose error the last execute returned
    committedNow,    \* install names whose commit succeeded in the running execute
    last,            \* the name processed last, the phase that failed and
                     \* the progress events its processing reported
    trip,            \* how far an install, uninstall, gc sequence of one name got
    keg_only         \* keg_only[n]: the keg_only field the API answers for n

instVars == <<kegs, opt, overlay, installed_kegs, linked_files, store_refs,
              storeDirs, blobFiles, ipc, pending, linkFlag, error,
              iresult, returned, committedNow, last, trip, keg_only>>

\* The parallel downloader (PART 3).
VARIABLES
    cap,        \* the configured global concurrency (permits of the semaphore)
    permits,    \* permits of the global semaphore that are free
    inflight,   \* inflight[s]: the request whose sender is in the map, 0 when none
    blobs,      \* shas with a committed blob in the cache
    dpc,        \* dpc[r]: position of request r in download_with_dedup
    leaderOf,   \* leaderOf[r]: the request whose sender r subscribed to, 0 if none
    dres,       \* dres[r]: what request r's call returned
    racer,      \* racer[r][i]: position of racing task i of leader r
    done,       \* done[r]: the done flag of leader r's race
    last_error  \* last_error[r]: the kind of the last error leader r's race saw

dlVars == <<cap, permits, inflight, blobs, dpc, leaderOf, dres, racer, done,
            last_error>>

\* One chunked download (PART 4).
VARIABLES
    csize,      \* Content-Length the HEAD probe reported
    cpc,        \* position of download_with_racing / download_with_chunks
    cperm,      \* free permits of the global semaphore the chunk tasks share
    ctask,      \* ctask[i]: state and attempt number of the task of chunk i
    cfail,      \* failing responses the server has given so far
    cres        \* what the download returned

chunkVars == <<csize, cpc, cperm, ctask, cfail, cres>>

\* One download into the blob cache (PART 5).
VARIABLES
    bkey,       \* the expected sha256 (the cache key)
    payload,    \* the chunks of the response body that are still to arrive
    received,   \* the bytes received so far
    hasher,     \* the state of the running Sha256
    part,       \* cache/tmp/<key>.tar.gz.part
    blob,       \* cache/blobs/<key>.tar.gz
    wpc,        \* position in download_response_internal or download_with_chunks
    bresult,    \* what the download returned
    chandles,   \* download_with_chunks: the state of each chunk task
    received_chunks,        \* the BTreeMap from offset to chunk data
    next_expected_offset,   \* the offset the next write goes to
    chunks_written          \* the count of chunks taken from the channel

writerLoopVars == <<chandles, received_chunks, next_expected_offset, chunks_written>>
blobVars == <<bkey, payload, received, hasher, part, blob, wpc, bresult,
              chandles, received_chunks, next_expected_offset, chunks_written>>

\* One call of the dependency resolver (PART 6).
VARIABLES
    rroots,     \* the roots argument
    rformulas,  \* the formulas argument: name -> dependencies of its formula
    rresult     \* what resolve_closure returned

resVars == <<rroots, rformulas, rresult>>

\* A prefix and the linker working on it (PART 7).
VARIABLES
    pfile,      \* pfile[f]: what sits at <prefix>/f
    pdir,       \* what sits at <prefix>/share/man
    popt,       \* popt[n]: the keg <prefix>/opt/<n> points at, or NoKeg
    llast,      \* the last linker call: its keg, what it returned, and whether
                \* link_keg had just succeeded for the keg
    kstate      \* kstate[k]: keg k in the cellar: whole, with dangling bin
                \* entries, or gone

lnVars == <<pfile, pdir, popt, llast, kstate>>

\* One archive entry being extracted (PART 8).
VARIABLES
    edest,      \* dest_dir, split at '/'
    epath,      \* the entry's path, split at '/'
    eres        \* what the extraction of the entry returned and where it wrote

exVars == <<edest, epath, eres>>

\* A step of one subsystem leaves the others as they are.
\* The channel of download_streaming and its receive loop (PART 9).
VARIABLES
    schan,      \* messages sent on the channel and not yet received
    ssent,      \* the spawned task has sent its message and ended
    shandled,   \* the messages the receive loop has handled, in order
    srx         \* the receive loop: "recv", or "closed" once recv returned None

strVars == <<schan, ssent, shandled, srx>>

\* One extract_with_retry call seen from outside (PART 10).
VARIABLES
    xens,       \* xens[i]: what the i-th ensure_entry call will return
    xdls,       \* xdls[i]: whether the i-th download_single call will succeed
    xres        \* the calls made, in order, and what extract_with_retry returned

retryVars == <<xens, xdls, xres>>

\* One range request or plain GET with registry authentication (PART 11).
VARIABLES
    qpc,            \* position in download_chunk / fetch_download_response_internal
    qattempt,       \* the loop variable `attempt` of download_chunk
    sent,           \* the requests sent to the URL: token used, status, backoff
    token_cache,    \* the cached token of the URL's scope and whether it is unexpired
    token_requests, \* the GETs sent to the realm so far
    qres            \* what the call returned

reqVars == <<qpc, qattempt, sent, token_cache, token_requests, qres>>

StoreOnly == UNCHANGED <<instVars, dlVars, chunkVars, blobVars, resVars, lnVars, exVars, strVars, retryVars, reqVars>>
InstOnly == UNCHANGED <<storeVars, dlVars, chunkVars, blobVars, resVars, lnVars, exVars, strVars, retryVars, reqVars, keg_only>>
DlOnly == UNCHANGED <<storeVars, instVars, chunkVars, blobVars, resVars, lnVars, exVars, strVars, retryVars, reqVars>>
ChunkOnly == UNCHANGED <<storeVars, instVars, dlVars, blobVars, resVars, lnVars, exVars, strVars, retryVars, reqVars>>
BlobOnly == UNCHANGED <<storeVars, instVars, dlVars, chunkVars, resVars, lnVars, exVars, strVars, retryVars, reqVars>>
ResOnly == UNCHANGED <<storeVars, instVars, dlVars, chunkVars, blobVars, lnVars, exVars, strVars, retryVars, reqVars>>
LinkOnly == UNCHANGED <<storeVars, instVars, dlVars, chunkVars, blobVars, resVars, exVars, strVars, retryVars, reqVars>>
ExOnly == UNCHANGED <<storeVars, instVars, dlVars, chunkVars, blobVars, resVars, lnVars, strVars, retryVars, reqVars>>
StreamOnly == UNCHANGED <<storeVars, instVars, dlVars, chunkVars, blobVars, resVars, lnVars, exVars, retryVars, reqVars>>
RetryOnly == UNCHANGED <<storeVars, instVars, dlVars, chunkVars, blobVars, resVars, lnVars, exVars, strVars, reqVars>>
ReqOnly == UNCHANGED <<storeVars, instVars, dlVars, chunkVars, blobVars, resVars, lnVars, exVars, strVars, retryVars>>

(***************************************************************************)
(*                       PART 1: THE STORE (store.rs)                      *)
(***************************************************************************)

\* Bounds of the store model.
NTasks == 3          \* concurrent callers of the store
NFiles == 2          \* entries of the archive
MaxIno == 2          \* lock-file inodes that may ever be created
MaxUnpack == 2       \* the unpack counter saturates here

Tasks == 1..NTasks
Files == 1..NFiles

\* Two tasks per process: tasks 1,2 are threads of process 1, task 3 of process 2.
PidOf(t) == (t + 1) \div 2
Pids == {PidOf(t) : t \in Tasks}

StoreKey == "k"

\* A directory: absent, or present with the set of archive files it holds.
NoDir == [ex |-> FALSE, fs |-> {}]
EmptyDir == [ex |-> TRUE, fs |-> {}]
Complete(d) == d.ex /\ d.fs = Files
Partial(d) == d.ex /\ d.fs # Files

\* Store::entry_path: store/<key>.
EntryPath(k) == [kind |-> "entry", key |-> k, pid |-> 0]
\* store/.<key>.tmp.<pid>
TmpPath(k, p) == [kind |-> "tmp", key |-> k, pid |-> p]

NoResult == [ok |-> FALSE, err |-> "none", path |-> EntryPath("")]
OkResult(p) == [ok |-> TRUE, err |-> "none", path |-> p]
ErrResult(e) == [ok |-> FALSE, err |-> e, path |-> EntryPath("")]

Min(a, b) == IF a < b THEN a ELSE b
Max(a, b) == IF a > b THEN a ELSE b

\* Store::new followed by nothing: empty store, no lock file, idle tasks.
StoreIdle ==
    /\ entry = NoDir
    /\ tmp = [p \in Pids |-> NoDir]
    /\ badAt = 0
    /\ lockPath = 0
    /\ nextIno = 1
    /\ fd = [t \in Tasks |-> 0]
    /\ holder = [i \in 1..MaxIno |-> 0]
    /\ pc = [t \in Tasks |-> "idle"]
    /\ idx = [t \in Tasks |-> 1]
    /\ result = [t \in Tasks |-> NoResult]
    /\ unpackCount = 0
    /\ seenPartial = FALSE

\* The same, for every archive: valid, or with one bad entry.
StoreInit ==
    /\ entry = NoDir
    /\ tmp = [p \in Pids |-> NoDir]
    /\ badAt \in 0..NFiles
    /\ lockPath = 0
    /\ nextIno = 1
    /\ fd = [t \in Tasks |-> 0]
    /\ holder = [i \in 1..MaxIno |-> 0]
    /\ pc = [t \in Tasks |-> "idle"]
    /\ idx = [t \in Tasks |-> 1]
    /\ result = [t \in Tasks |-> NoResult]
    /\ unpackCount = 0
    /\ seenPartial = FALSE

\* Dropping lock_file closes the descriptor, which releases the flock.
DropLockFile(t) ==
    /\ holder' = [i \in 1..MaxIno |-> IF holder[i] = t THEN 0 ELSE holder[i]]
    /\ fd' = [fd EXCEPT ![t] = 0]

\* The call returns r; its locals go out of scope.
Return(t, r) ==
    /\ pc' = [pc EXCEPT ![t] = "idle"]
    /\ result' = [result EXCEPT ![t] = r]
    /\ idx' = [idx EXCEPT ![t] = 1]

\* Path::exists on store/<key>, as a caller sees it.
Observe(d) == seenPartial' = (seenPartial \/ Partial(d))

\* Store::has_entry
HasEntry(t) ==
    /\ pc[t] = "idle"
    /\ Observe(entry)
    /\ UNCHANGED <<entry, tmp, badAt, lockPath, nextIno, fd, holder, pc, idx, result,
                   unpackCount>>
    /\ StoreOnly

\* A task calls ensure_entry(key, blob).
EnsureCall(t) ==
    /\ pc[t] = "idle"
    /\ pc' = [pc EXCEPT ![t] = "e_fast"]
    /\ result' = [result EXCEPT ![t] = NoResult]
    /\ UNCHANGED <<entry, tmp, badAt, lockPath, nextIno, fd, holder, idx,
                   unpackCount, seenPartial>>
    /\ StoreOnly

\* Fast path: already exists.
EnsureFast(t) ==
    /\ pc[t] = "e_fast"
    /\ IF entry.ex
       THEN /\ Return(t, OkResult(EntryPath(StoreKey)))
            /\ Observe(entry)
       ELSE /\ pc' = [pc EXCEPT ![t] = "e_create"]
            /\ UNCHANGED <<result, idx, seenPartial>>
    /\ UNCHANGED <<entry, tmp, badAt, lockPath, nextIno, fd, holder, unpackCount>>
    /\ StoreOnly

\* File::create(lock_path): opens the inode linked at the path, creating one
\* when the path is not linked.
CreateLockFile(t, next) ==
    /\ IF lockPath = 0
       THEN /\ nextIno <= MaxIno
            /\ lockPath' = nextIno
            /\ nextIno' = nextIno + 1
            /\ fd' = [fd EXCEPT ![t] = nextIno]
       ELSE /\ fd' = [fd EXCEPT ![t] = lockPath]
            /\ UNCHANGED <<lockPath, nextIno>>
    /\ pc' = [pc EXCEPT ![t] = next]

EnsureCreateLock(t) ==
    /\ pc[t] = "e_create"
    /\ CreateLockFile(t, "e_lock")
    /\ UNCHANGED <<entry, tmp, badAt, holder, idx, result, unpackCount, seenPartial>>
    /\ StoreOnly

\* lock_exclusive: blocks until the flock on the opened inode is free.
LockFree(t) == holder[fd[t]] = 0

LockExclusive(t, next) ==
    /\ LockFree(t)
    /\ holder' = [holder EXCEPT ![fd[t]] = t]
    /\ pc' = [pc EXCEPT ![t] = next]

EnsureLock(t) ==
    /\ pc[t] = "e_lock"
    /\ LockExclusive(t, "e_check")
    /\ UNCHANGED <<entry, tmp, badAt, lockPath, nextIno, fd, idx, result,
                   unpackCount, seenPartial>>
    /\ StoreOnly

\* Mutant: the double-check under the lock is missing.
RecheckFinds_Missing(d) == FALSE

\* Double-check after acquiring the lock.
RecheckFinds(d) == d.ex

EnsureRecheck(t) ==
    /\ pc[t] = "e_check"
    /\ IF RecheckFinds(entry)
       THEN /\ Return(t, OkResult(EntryPath(StoreKey)))
            /\ DropLockFile(t)
            /\ Observe(entry)
       ELSE /\ pc' = [pc EXCEPT ![t] = "e_mktmp"]
            /\ UNCHANGED <<result, idx, fd, holder, seenPartial>>
    /\ UNCHANGED <<entry, tmp, badAt, lockPath, nextIno, unpackCount>>
    /\ StoreOnly

\* Purge a leftover temp directory, then create it afresh.
EnsureMkTmp(t) ==
    /\ pc[t] = "e_mktmp"
    /\ tmp' = [tmp EXCEPT ![PidOf(t)] = EmptyDir]
    /\ idx' = [idx EXCEPT ![t] = 1]
    /\ unpackCount' = Min(unpackCount + 1, MaxUnpack)
    /\ pc' = [pc EXCEPT ![t] = "e_extract"]
    /\ UNCHANGED <<entry, badAt, lockPath, nextIno, fd, holder, result, seenPartial>>
    /\ StoreOnly

\* extract_archive, one archive entry per step.  A bad entry, or a destination
\* that is gone, fails the extraction: the temp directory is removed and the
\* error returned.
EntryFails(t) == idx[t] = badAt \/ ~tmp[PidOf(t)].ex

EnsureExtract(t) ==
    /\ pc[t] = "e_extract"
    /\ idx[t] <= NFiles
    /\ IF EntryFails(t)
       THEN /\ tmp' = [tmp EXCEPT ![PidOf(t)] = NoDir]
            /\ Return(t, ErrResult("StoreCorruption"))
            /\ DropLockFile(t)
       ELSE /\ tmp' = [tmp EXCEPT ![PidOf(t)].fs = @ \cup {idx[t]}]
            /\ idx' = [idx EXCEPT ![t] = @ + 1]
            /\ UNCHANGED <<pc, result, fd, holder>>
    /\ UNCHANGED <<entry, badAt, lockPath, nextIno, unpackCount, seenPartial>>
    /\ StoreOnly

\* fs::rename(tmp_dir, entry_path): fails when the source is gone or the
\* destination is a non-empty directory.
RenameOk(src, dst) == src.ex /\ (~dst.ex \/ dst.fs = {})

EnsureRename(t) ==
    /\ pc[t] = "e_extract"
    /\ idx[t] > NFiles
    /\ IF RenameOk(tmp[PidOf(t)], entry)
       THEN /\ entry' = tmp[PidOf(t)]
            /\ Return(t, OkResult(EntryPath(StoreKey)))
       ELSE /\ Return(t, ErrResult("StoreCorruption"))
            /\ UNCHANGED entry
    /\ tmp' = [tmp EXCEPT ![PidOf(t)] = NoDir]
    /\ DropLockFile(t)
    /\ UNCHANGED <<badAt, lockPath, nextIno, unpackCount, seenPartial>>
    /\ StoreOnly

EnsureStep(t) ==
    \/ EnsureCall(t)
    \/ EnsureFast(t)
    \/ EnsureCreateLock(t)
    \/ EnsureLock(t)
    \/ EnsureRecheck(t)
    \/ EnsureMkTmp(t)
    \/ EnsureExtract(t)
    \/ EnsureRename(t)

UnitResult == [ok |-> TRUE, err |-> "none", path |-> EntryPath("")]

\* A task calls remove_entry(key).
RemoveCall(t) ==
    /\ pc[t] = "idle"
    /\ pc' = [pc EXCEPT ![t] = "r_fast"]
    /\ result' = [result EXCEPT ![t] = NoResult]
    /\ UNCHANGED <<entry, tmp, badAt, lockPath, nextIno, fd, holder, idx,
                   unpackCount, seenPartial>>
    /\ StoreOnly

\* if !entry_path.exists() { return Ok(()) }
RemoveFast(t) ==
    /\ pc[t] = "r_fast"
    /\ IF ~entry.ex
       THEN Return(t, UnitResult)
       ELSE /\ pc' = [pc EXCEPT ![t] = "r_create"]
            /\ UNCHANGED <<result, idx>>
    /\ UNCHANGED <<entry, tmp, badAt, lockPath, nextIno, fd, holder,
                   unpackCount, seenPartial>>
    /\ StoreOnly

RemoveCreateLock(t) ==
    /\ pc[t] = "r_create"
    /\ CreateLockFile(t, "r_lock")
    /\ UNCHANGED <<entry, tmp, badAt, holder, idx, result, unpackCount, seenPartial>>
    /\ StoreOnly

RemoveLock(t) ==
    /\ pc[t] = "r_lock"
    /\ LockExclusive(t, "r_check")
    /\ UNCHANGED <<entry, tmp, badAt, lockPath, nextIno, fd, idx, result,
                   unpackCount, seenPartial>>
    /\ StoreOnly

\* if entry_path.exists() { fs::remove_dir_all(..)? }
RemoveCheck(t) ==
    /\ pc[t] = "r_check"
    /\ pc' = [pc EXCEPT ![t] = IF entry.ex THEN "r_rm" ELSE "r_unlink"]
    /\ UNCHANGED <<entry, tmp, badAt, lockPath, nextIno, fd, holder, idx, result,
                   unpackCount, seenPartial>>
    /\ StoreOnly

\* fs::remove_dir_all(entry_path) deletes the directory's files one by one and
\* then the directory itself; it fails when the directory is already gone.
RemoveDirAll(t) ==
    /\ pc[t] = "r_rm"
    /\ IF ~entry.ex
       THEN /\ Return(t, ErrResult("StoreCorruption"))
            /\ DropLockFile(t)
            /\ UNCHANGED entry
       ELSE IF entry.fs # {}
       THEN /\ \E f \in entry.fs : entry' = [entry EXCEPT !.fs = @ \ {f}]
            /\ UNCHANGED <<pc, result, idx, fd, holder>>
       ELSE /\ entry' = NoDir
            /\ pc' = [pc EXCEPT ![t] = "r_unlink"]
            /\ UNCHANGED <<result, idx, fd, holder>>
    /\ UNCHANGED <<tmp, badAt, lockPath, nextIno, unpackCount, seenPartial>>
    /\ StoreOnly

\* let _ = fs::remove_file(&lock_path); Ok(())
RemoveUnlinkLock(t) ==
    /\ pc[t] = "r_unlink"
    /\ lockPath' = 0
    /\ Return(t, UnitResult)
    /\ DropLockFile(t)
    /\ UNCHANGED <<entry, tmp, badAt, nextIno, unpackCount, seenPartial>>
    /\ StoreOnly

RemoveStep(t) ==
    \/ RemoveCall(t)
    \/ RemoveFast(t)
    \/ RemoveCreateLock(t)
    \/ RemoveLock(t)
    \/ RemoveCheck(t)
    \/ RemoveDirAll(t)
    \/ RemoveUnlinkLock(t)

\* The rename fails for a reason of the environment (I/O error): the temp
\* directory is removed and StoreCorruption returned.
RenameFault(t) ==
    /\ pc[t] = "e_extract"
    /\ idx[t] > NFiles
    /\ tmp' = [tmp EXCEPT ![PidOf(t)] = NoDir]
    /\ Return(t, ErrResult("StoreCorruption"))
    /\ DropLockFile(t)
    /\ UNCHANGED <<entry, badAt, lockPath, nextIno, unpackCount, seenPartial>>
    /\ StoreOnly

\* Process p dies: its tasks stop where they are, the kernel closes their
\* descriptors (releasing their flocks); directories stay as they are.
Crash(p) ==
    /\ \E t \in Tasks : PidOf(t) = p /\ pc[t] # "idle"
    /\ pc' = [t \in Tasks |-> IF PidOf(t) = p THEN "idle" ELSE pc[t]]
    /\ result' = [t \in Tasks |-> IF PidOf(t) = p THEN NoResult ELSE result[t]]
    /\ fd' = [t \in Tasks |-> IF PidOf(t) = p THEN 0 ELSE fd[t]]
    /\ holder' = [i \in 1..MaxIno |->
                    IF holder[i] # 0 /\ PidOf(holder[i]) = p THEN 0 ELSE holder[i]]
    /\ idx' = [t \in Tasks |-> IF PidOf(t) = p THEN 1 ELSE idx[t]]
    /\ UNCHANGED <<entry, tmp, badAt, lockPath, nextIno, unpackCount, seenPartial>>
    /\ StoreOnly

(***************************************************************************)
(*        PART 2: THE INSTALLER (install.rs) AND THE LINKER (link.rs)      *)
(***************************************************************************)

\* install.rs: maximum number of retries for corrupted downloads.
MAX_CORRUPTION_RETRIES == 3
\* Bound: execute is not started for a store key whose refcount reached this.
MaxRef == 2

\* Install names as the user gives them, split at '/'.
InstallNames == {<<"tfenv">>, <<"terraform">>, <<"hashicorp", "tap", "terraform">>}

\* formula_token: the last non-empty segment of the install name, or "".
formula_token(name) ==
    LET segments == SelectSeq(name, LAMBDA s : s # "")
    IN  IF segments = <<>> THEN "" ELSE segments[Len(segments)]

\* types.rs, enum KegOnly: No, Yes (the JSON value true), Reason (a string).
KegOnlyKinds == {"No", "Yes", "Reason"}

\* What the API answers for an install name: the formula's own name (for a tap
\* reference the formula part of the reference), its version, its bottle and
\* its keg_only field. No name of the model contains '@'.
Formula(n) ==
    [name |-> formula_token(n),
     versioned |-> FALSE,
     keg_only |-> keg_only[n],
     stable |-> IF n = <<"tfenv">> THEN "3.0.0" ELSE "1.10.0",
     revision |-> IF n = <<"tfenv">> THEN 1 ELSE 0,
     sha256 |-> IF n = <<"tfenv">> THEN "sha-tfenv" ELSE "sha-terraform"]

\* The keg-only test without the reason variant.
is_keg_only_YesOnly(formula) ==
    formula.versioned \/ formula.keg_only = "Yes"

\* Formula::is_keg_only: the name contains '@', or keg_only is not No.
is_keg_only(formula) ==
    formula.versioned \/ formula.keg_only # "No"

\* Formula::effective_version: "<stable>_<revision>" when revision > 0.
effective_version(f) ==
    IF f.revision > 0 THEN <<f.stable, f.revision>> ELSE <<f.stable>>

KegNames == {Formula(n).name : n \in InstallNames}
StoreKeys == {Formula(n).sha256 : n \in InstallNames}

\* A keg is cellar/<name>/<version>; NoKeg stands for "no such path".
Keg(name, version) == [name |-> name, version |-> version]
NoKeg == Keg("", <<>>)
KegOf(n) == Keg(Formula(n).name, effective_version(Formula(n)))

\* The files a keg holds under bin/, hence the link paths it wants in the prefix.
BinFiles(kegName) ==
    IF kegName = "tfenv" THEN {"bin/tfenv", "bin/terraform"} ELSE {"bin/terraform"}
LinkPaths == UNION {BinFiles(k) : k \in KegNames}

NoRow == [version |-> <<>>, key |-> ""]
Row(version, key) == [version |-> version, key |-> key]
LinkedRow(n, version, link) == [name |-> n, version |-> version, link |-> link]

NoItem == [name |-> <<>>, fail |-> "none", events |-> <<>>]
\* No install, uninstall, gc sequence is under way.
NoTrip == [name |-> <<>>, stage |-> "none"]
\* Option<Error>::None: no item's error is held.
NoError == <<>>

\* A fresh root and prefix: empty cellar, empty tables, nothing running.
InstFresh ==
    /\ kegs = {}
    /\ opt = [k \in KegNames |-> NoKeg]
    /\ overlay = [l \in LinkPaths |-> NoKeg]
    /\ installed_kegs = [n \in InstallNames |-> NoRow]
    /\ linked_files = {}
    /\ store_refs = [k \in StoreKeys |-> -1]
    /\ storeDirs = {}
    /\ blobFiles = {}
    /\ ipc = "idle"
    /\ pending = {}
    /\ linkFlag = FALSE
    /\ error = NoError
    /\ iresult = "none"
    /\ returned = NoError
    /\ committedNow = {}
    /\ last = NoItem
    /\ trip = NoTrip

\* No formula of the API is keg-only.
InstIdle == keg_only = [n \in InstallNames |-> "No"] /\ InstFresh
InstInit == InstIdle
\* The API marks at most one of its formulas keg-only, with or without a
\* reason; a formula parsed from a tap's Ruby source has KegOnly::default().
InstInitKegOnly ==
    /\ keg_only \in {k \in [InstallNames -> KegOnlyKinds] :
                        /\ \A n \in InstallNames : Len(n) > 1 => k[n] = "No"
                        /\ \A m, n \in InstallNames :
                              (k[m] # "No" /\ k[n] # "No") => m = n}
    /\ InstFresh

\* The filesystem and the database as one value, so that a handler's steps
\* compose: each step maps a world to a world.
World ==
    [kegs |-> kegs, opt |-> opt, overlay |-> overlay,
     installed_kegs |-> installed_kegs, linked_files |-> linked_files,
     store_refs |-> store_refs, storeDirs |-> storeDirs, blobFiles |-> blobFiles]

SetWorld(w) ==
    /\ kegs' = w.kegs
    /\ opt' = w.opt
    /\ overlay' = w.overlay
    /\ installed_kegs' = w.installed_kegs
    /\ linked_files' = w.linked_files
    /\ store_refs' = w.store_refs
    /\ storeDirs' = w.storeDirs
    /\ blobFiles' = w.blobFiles

Ok(w) == [w |-> w, ok |-> TRUE]
Err(w) == [w |-> w, ok |-> FALSE]

\* ---- the cellar and the metadata store ----

\* Cellar::materialize: an existing keg is kept as it is; otherwise the keg is
\* built under a temporary name and renamed into place, or nothing is left.
materialize(w, name, version, fail) ==
    IF Keg(name, version) \in w.kegs THEN Ok(w)
    ELSE IF fail THEN Err(w)
    ELSE Ok([w EXCEPT !.kegs = @ \cup {Keg(name, version)}])

\* Cellar::remove_keg: delete cellar/<name>/<version> when it is there.
remove_keg(w, name, version) ==
    [w EXCEPT !.kegs = @ \ {Keg(name, version)}]

\* Transaction::record_install: upsert the row, increment the key's refcount
\* (insert it with count 1 when absent).
record_install(w, n, version, key) ==
    [w EXCEPT !.installed_kegs[n] = Row(version, key),
              !.store_refs[key] = IF @ = -1 THEN 1 ELSE @ + 1]

\* Transaction::record_linked_file for every linked file of one install.
record_linked_files(w, n, version, links) ==
    [w EXCEPT !.linked_files = @ \cup {LinkedRow(n, version, l) : l \in links}]

\* Transaction::record_uninstall: delete the linked_file rows and the
\* installed_keg row, decrement the key's refcount, never below 0.
record_uninstall(w, n) ==
    LET key == w.installed_kegs[n].key
    IN  [w EXCEPT !.installed_kegs[n] = NoRow,
                  !.linked_files = {r \in @ : r.name # n},
                  !.store_refs[key] = IF @ > 0 THEN @ - 1 ELSE @]

\* Database::get_unreferenced_store_keys: rows of store_refs with count 0.
unreferenced(w) == {k \in StoreKeys : w.store_refs[k] = 0}

\* ---- the linker ----

\* fs::canonicalize(path).ok() of a path inside keg k: None when k is gone.
Canon(w, k) == IF k \in w.kegs THEN k ELSE NoKeg

\* Linker::check_conflicts: the destinations that exist and do not resolve to
\* the keg's own file.
conflicts(w, keg) ==
    IF keg \in w.kegs
    THEN {l \in BinFiles(keg.name) :
            w.overlay[l] # NoKeg /\ Canon(w, w.overlay[l]) # Canon(w, keg)}
    ELSE {}

\* Linker::link_opt: leave a link that resolves to the keg, else replace it.
link_opt(w, keg) == [w EXCEPT !.opt[keg.name] = keg]

\* Linker::unlink_opt: remove opt/<name> when it resolves to what the keg
\* path resolves to.
unlink_opt(w, keg) ==
    IF w.opt[keg.name] # NoKeg /\ Canon(w, w.opt[keg.name]) = Canon(w, keg)
    THEN [w EXCEPT !.opt[keg.name] = NoKeg]
    ELSE w

\* Linker::unlink_keg: unlink_opt, then remove the symlinks that resolve to the
\* keg's files (nothing to walk when the keg directory is gone).
unlink_keg(w, keg) ==
    LET w1 == unlink_opt(w, keg)
    IN  IF keg \in w1.kegs
        THEN [w1 EXCEPT !.overlay =
                [l \in LinkPaths |->
                    IF l \in BinFiles(keg.name) /\ w1.overlay[l] # NoKeg
                       /\ Canon(w1, w1.overlay[l]) = Canon(w1, keg)
                    THEN NoKeg ELSE w1.overlay[l]]]
        ELSE w1

\* Linker::link_keg: pre-flight conflict check, opt link, then one symlink per
\* file; made is the set of files handled before a symlink call fails
\* (all of them when none fails).  The result carries the files linked.
link_keg(w, keg, made) ==
    LET files == IF keg \in w.kegs THEN BinFiles(keg.name) ELSE {}
        w1 == link_opt(w, keg)
        w2 == [w1 EXCEPT !.overlay =
                 [l \in LinkPaths |->
                    IF l \in files \cap made THEN keg ELSE w1.overlay[l]]]
    IN  IF conflicts(w, keg) # {} THEN [w |-> w, ok |-> FALSE, files |-> {}]
        ELSE IF files \subseteq made THEN [w |-> w2, ok |-> TRUE, files |-> files]
        ELSE [w |-> w2, ok |-> FALSE, files |-> {}]

\* ---- the orchestrator ----

\* What can go wrong while one plan item is processed: the phase that fails
\* (at), how many extraction attempts find the blob corrupted (corrupt),
\* whether the re-download after a corrupted attempt fails (redownload), and
\* the files linked before a symlink call fails (made).
FailPhases == {"none", "download", "materialize", "transaction",
               "record_install", "commit", "symlink", "record_linked_file"}
DbPhases == {"transaction", "record_install", "commit"}
Faults ==
    [at : {"none"}, corrupt : 0..MAX_CORRUPTION_RETRIES,
     redownload : BOOLEAN, made : {{}}]
    \cup [at : FailPhases \ {"none", "symlink"}, corrupt : {0},
          redownload : {FALSE}, made : {{}}]
    \cup [at : {"symlink"}, corrupt : {0}, redownload : {FALSE},
          made : SUBSET LinkPaths]

\* Installer::extract_with_retry from attempt a on: ensure_entry succeeds when
\* the entry exists or the blob extracts; a corrupted blob is removed and, on
\* all but the last attempt, downloaded again.
RECURSIVE extract_with_retry(_, _, _, _)
extract_with_retry(w, key, a, fault) ==
    IF a >= MAX_CORRUPTION_RETRIES THEN Err(w)
    ELSE IF key \in w.storeDirs \/ a >= fault.corrupt
    THEN Ok([w EXCEPT !.storeDirs = @ \cup {key}])
    ELSE LET w1 == [w EXCEPT !.blobFiles = @ \ {key}]
         IN  IF a + 1 < MAX_CORRUPTION_RETRIES
             THEN IF fault.redownload THEN Err(w1)
                  ELSE extract_with_retry(
                          [w1 EXCEPT !.blobFiles = @ \cup {key}], key, a + 1, fault)
             ELSE Err(w1)

\* Installer::cleanup_materialized.
cleanup_materialized(w, name, version) == remove_keg(w, name, version)

\* The outcome of one item: the world it leaves, whether it set error, whether
\* its commit succeeded, whether it was counted, and the phase that failed.
Outcome(w, failed, committed, counted, phase) ==
    [w |-> w, failed |-> failed, committed |-> committed, counted |-> counted,
     phase |-> phase]

\* The loop body with record_install committed before the keg is materialized.
process_item_RecordFirst(w, n, link, fault) ==
    LET formula == Formula(n)
        processed_name == n
        materialized_name == formula.name
        processed_version == effective_version(formula)
        processed_store_key == formula.sha256
        keg_path == Keg(materialized_name, processed_version)
        should_link == link /\ ~is_keg_only(formula)
        downloaded == processed_store_key \in w.blobFiles \/ fault.at # "download"
        w1 == [w EXCEPT !.blobFiles = @ \cup {processed_store_key}]
        ex == extract_with_retry(w1, processed_store_key, 0, fault)
        mat == materialize(ex.w, materialized_name, processed_version,
                           fault.at = "materialize")
        w3 == cleanup_materialized(mat.w, materialized_name, processed_version)
        w4 == link_opt(record_install(mat.w, processed_name, processed_version,
                                      processed_store_key), keg_path)
        lk == link_keg(w4, keg_path,
                       IF fault.at = "symlink" THEN fault.made ELSE LinkPaths)
        w5 == record_linked_files(lk.w, processed_name, processed_version, lk.files)
    IN  IF ~downloaded THEN Outcome(w, TRUE, FALSE, FALSE, "download")
        ELSE IF ~ex.ok THEN Outcome(ex.w, TRUE, FALSE, FALSE, "extract")
        ELSE IF ~mat.ok
             THEN Outcome(record_install(mat.w, processed_name, processed_version,
                                         processed_store_key),
                          TRUE, TRUE, FALSE, "materialize")
        ELSE IF fault.at \in DbPhases THEN Outcome(w3, TRUE, FALSE, FALSE, fault.at)
        ELSE IF ~should_link THEN Outcome(w4, FALSE, TRUE, TRUE, "none")
        ELSE IF ~lk.ok THEN Outcome(unlink_keg(lk.w, keg_path), TRUE, TRUE, TRUE, "link")
        ELSE IF fault.at = "record_linked_file"
             THEN Outcome(lk.w, FALSE, TRUE, TRUE, "none")
        ELSE Outcome(w5, FALSE, TRUE, TRUE, "none")

\* The body of execute_with_progress's receive loop for the download result
\* of plan item n.
process_item(w, n, link, fault) ==
    LET formula == Formula(n)
        processed_name == n
        materialized_name == formula.name
        processed_version == effective_version(formula)
        processed_store_key == formula.sha256
        keg_path == Keg(materialized_name, processed_version)
        should_link == link /\ ~is_keg_only(formula)
        downloaded == processed_store_key \in w.blobFiles \/ fault.at # "download"
        w1 == [w EXCEPT !.blobFiles = @ \cup {processed_store_key}]
        ex == extract_with_retry(w1, processed_store_key, 0, fault)
        mat == materialize(ex.w, materialized_name, processed_version,
                           fault.at = "materialize")
        w3 == cleanup_materialized(mat.w, materialized_name, processed_version)
        w4 == link_opt(record_install(mat.w, processed_name, processed_version,
                                      processed_store_key), keg_path)
        lk == link_keg(w4, keg_path,
                       IF fault.at = "symlink" THEN fault.made ELSE LinkPaths)
        w5 == record_linked_files(lk.w, processed_name, processed_version, lk.files)
    IN  IF ~downloaded THEN Outcome(w, TRUE, FALSE, FALSE, "download")
        ELSE IF ~ex.ok THEN Outcome(ex.w, TRUE, FALSE, FALSE, "extract")
        ELSE IF ~mat.ok THEN Outcome(mat.w, TRUE, FALSE, FALSE, "materialize")
        ELSE IF fault.at \in DbPhases THEN Outcome(w3, TRUE, FALSE, FALSE, fault.at)
        ELSE IF ~should_link THEN Outcome(w4, FALSE, TRUE, TRUE, "none")
        ELSE IF ~lk.ok THEN Outcome(unlink_keg(lk.w, keg_path), TRUE, TRUE, TRUE, "link")
        ELSE IF fault.at = "record_linked_file"
             THEN Outcome(lk.w, FALSE, TRUE, TRUE, "none")
        ELSE Outcome(w5, FALSE, TRUE, TRUE, "none")

\* The progress events the loop body reports for plan item n, in order, when
\* its processing ends at the given phase ("none": at the end of the body).
reports(n, link, phase) ==
    LET formula == Formula(n)
        should_link == link /\ ~is_keg_only(formula)
        unpacked == <<"UnpackStarted", "UnpackCompleted">>
    IN  IF phase = "download" THEN <<>>
        ELSE IF phase \in {"extract", "materialize"} THEN <<"UnpackStarted">>
        ELSE IF phase \in DbPhases THEN unpacked
        ELSE IF phase = "link"
             THEN unpacked \o <<"LinkStarted", "InstallCompleted">>
        ELSE unpacked
             \o (IF should_link THEN <<"LinkStarted", "LinkCompleted">>
                 ELSE IF link /\ is_keg_only(formula) THEN <<"LinkSkipped">>
                 ELSE <<>>)
             \o <<"InstallCompleted">>

\* Installer::execute: an empty plan returns Ok at once; otherwise the
\* downloads start and their results arrive in any order.
ExecuteBegin(names, link) ==
    /\ ipc = "idle"
    /\ \A n \in names : store_refs[Formula(n).sha256] < MaxRef
    /\ ipc' = IF names = {} THEN "idle" ELSE "exec"
    /\ iresult' = IF names = {} THEN "ok" ELSE "none"
    /\ pending' = names
    /\ linkFlag' = link
    /\ error' = NoError
    /\ returned' = NoError
    /\ committedNow' = {}
    /\ last' = NoItem
    /\ trip' = IF Cardinality(names) = 1
               THEN [name |-> CHOOSE n \in names : TRUE, stage |-> "installing"]
               ELSE NoTrip
    /\ SetWorld(World)
    /\ InstOnly

\* Item n starts from nothing: no row under its install name, no keg.
Fresh(n) == installed_kegs[n] = NoRow /\ KegOf(n) \notin kegs

\* ExecuteResult: execute's counter installed, the items counted so far.
ExecuteResult == [installed |-> Cardinality(committedNow)]

\* One download result arrives and its item is processed to the end. A fault
\* is drawn only for a phase that runs: the download when the blob is not
\* cached, the extraction when the store entry is missing (a failing
\* re-download being the one after the first corrupted attempt), the link
\* when linking was asked for (a failing symlink call leaving some file of
\* the keg unlinked).
ProcessItem(n, fault) ==
    /\ ipc = "exec"
    /\ n \in pending
    /\ fault.at = "download" => Formula(n).sha256 \notin blobFiles
    /\ fault.corrupt > 0 => Formula(n).sha256 \notin storeDirs
    /\ fault.redownload => fault.corrupt = 1
    /\ fault.at \in {"symlink", "record_linked_file"} => linkFlag
    /\ fault.at = "symlink" =>
          fault.made \subseteq BinFiles(Formula(n).name) /\ fault.made # BinFiles(Formula(n).name)
    /\ \E out \in {process_item(World, n, linkFlag, fault)} :
           /\ SetWorld(out.w)
           /\ error' = IF out.failed THEN n ELSE error
           /\ committedNow' = committedNow \cup (IF out.committed THEN {n} ELSE {})
           /\ last' = [name |-> n, fail |-> out.phase,
                        events |-> reports(n, linkFlag, out.phase)]
    /\ pending' = pending \ {n}
    /\ UNCHANGED <<ipc, linkFlag, iresult, returned, trip>>
    /\ InstOnly

\* The channel is drained: execute returns the error when there is one.
ExecuteEnd ==
    /\ ipc = "exec"
    /\ pending = {}
    /\ ipc' = "idle"
    /\ iresult' = IF error # NoError THEN "err" ELSE "ok"
    /\ returned' = error
    /\ linkFlag' = FALSE
    /\ error' = NoError
    /\ committedNow' = {}
    /\ last' = NoItem
    /\ trip' = IF trip.stage = "installing" /\ error = NoError
               THEN [trip EXCEPT !.stage = "installed"] ELSE NoTrip
    /\ UNCHANGED <<kegs, opt, overlay, installed_kegs, linked_files, store_refs,
                   storeDirs, blobFiles, pending>>
    /\ InstOnly

\* uninstall and gc do not touch what execute keeps while it runs.
NoExecute ==
    /\ returned' = NoError
    /\ UNCHANGED <<ipc, pending, linkFlag, error, committedNow>>

UninstallPhases == {"none", "transaction", "record_uninstall", "commit", "remove_keg"}

\* uninstall with the row looked up by formula token instead of by the
\* install name as given.
uninstall_ByToken(w, name, failAt) ==
    LET rows == {x \in InstallNames : /\ formula_token(x) = formula_token(name)
                                      /\ w.installed_kegs[x] # NoRow}
        found == IF name \in rows \/ rows = {} THEN name ELSE CHOOSE x \in rows : TRUE
        installed == w.installed_kegs[found]
        keg_path == Keg(formula_token(found), installed.version)
        w1 == unlink_keg(w, keg_path)
        w2 == record_uninstall(w1, found)
        w3 == remove_keg(w2, keg_path.name, installed.version)
    IN  IF installed = NoRow THEN [w |-> w, ok |-> FALSE, err |-> "NotInstalled"]
        ELSE IF failAt \in {"transaction", "record_uninstall", "commit"}
             THEN [w |-> w1, ok |-> FALSE, err |-> failAt]
        ELSE IF failAt = "remove_keg" THEN [w |-> w2, ok |-> FALSE, err |-> failAt]
        ELSE [w |-> w3, ok |-> TRUE, err |-> "none"]

\* Installer::uninstall(name): look the row up, unlink the keg, delete the
\* metadata in a transaction, remove the keg; each step's error is returned.
uninstall(w, name, failAt) ==
    LET installed == w.installed_kegs[name]
        keg_name == formula_token(name)
        keg_path == Keg(keg_name, installed.version)
        w1 == unlink_keg(w, keg_path)
        w2 == record_uninstall(w1, name)
        w3 == remove_keg(w2, keg_name, installed.version)
    IN  IF installed = NoRow THEN [w |-> w, ok |-> FALSE, err |-> "NotInstalled"]
        ELSE IF failAt \in {"transaction", "record_uninstall", "commit"}
             THEN [w |-> w1, ok |-> FALSE, err |-> failAt]
        ELSE IF failAt = "remove_keg" THEN [w |-> w2, ok |-> FALSE, err |-> failAt]
        ELSE [w |-> w3, ok |-> TRUE, err |-> "none"]

\* A step of uninstall can fail only after the lookup found a row.
Uninstall(name, failAt) ==
    /\ ipc = "idle"
    /\ failAt # "none" => installed_kegs[name] # NoRow
    /\ LET r == uninstall(World, name, failAt)
       IN  /\ SetWorld(r.w)
           /\ iresult' = IF r.ok THEN "ok" ELSE "err"
           /\ last' = [name |-> name, fail |-> r.err, events |-> <<>>]
           /\ trip' = IF r.ok /\ trip = [name |-> name, stage |-> "installed"]
                      THEN [trip EXCEPT !.stage = "uninstalled"] ELSE NoTrip
    /\ NoExecute
    /\ InstOnly

\* Installer::gc: for each unreferenced key remove the store entry, then the
\* row; removed are the entries removed and deleted the rows deleted before
\* the first error, if any.
gc(w, removed, deleted) ==
    LET w1 == [w EXCEPT !.storeDirs = @ \ removed,
                        !.store_refs = [k \in StoreKeys |->
                                           IF k \in deleted THEN -1 ELSE @[k]]]
    IN  IF deleted = unreferenced(w) THEN Ok(w1) ELSE Err(w1)

Gc(removed, deleted) ==
    /\ ipc = "idle"
    /\ deleted \subseteq removed
    /\ removed \subseteq unreferenced(World)
    /\ Cardinality(removed \ deleted) <= 1
    /\ LET r == gc(World, removed, deleted)
       IN  /\ SetWorld(r.w)
           /\ iresult' = IF r.ok THEN "ok" ELSE "err"
           /\ last' = NoItem
           /\ trip' = IF r.ok /\ trip.stage = "uninstalled"
                      THEN [trip EXCEPT !.stage = "collected"] ELSE NoTrip
    /\ NoExecute
    /\ InstOnly

\* Installs alone, of formulas any of which may be keg-only.
NextKegOnly ==
    \/ \E names \in SUBSET InstallNames, link \in BOOLEAN : ExecuteBegin(names, link)
    \/ \E n \in InstallNames, fault \in Faults : ProcessItem(n, fault)
    \/ ExecuteEnd

NextInstall ==
    \/ \E names \in SUBSET InstallNames, link \in BOOLEAN : ExecuteBegin(names, link)
    \/ \E n \in InstallNames, fault \in Faults : ProcessItem(n, fault)
    \/ ExecuteEnd
    \/ \E n \in InstallNames, failAt \in UninstallPhases : Uninstall(n, failAt)
    \/ \E removed, deleted \in SUBSET StoreKeys : Gc(removed, deleted)

(***************************************************************************)
(*          PART 3: THE PARALLEL DOWNLOADER (network/download/mod.rs)      *)
(***************************************************************************)

\* download/mod.rs: connections raced per download.
RACING_CONNECTIONS == 3
\* Bounds: requests submitted, and the largest configured concurrency tried.
NReqs == 3
MaxCap == 2

Reqs == 1..NReqs
Racers == 0..(RACING_CONNECTIONS - 1)
\* The sha256 each request asks for: odd requests one blob, even ones another.
ShaOf(r) == IF r % 2 = 1 THEN "sha-a" ELSE "sha-b"
Shas == {ShaOf(r) : r \in Reqs}
\* BlobCache::blob_path
blob_path(s) == <<"blobs", s>>

\* What download_response_internal returns.
BodyResults == {"ok", "NetworkFailure", "ChecksumMismatch"}

NoDl == [ok |-> FALSE, path |-> <<>>, err |-> "none"]
DlOk(p) == [ok |-> TRUE, path |-> p, err |-> "none"]
DlErr(e) == [ok |-> FALSE, path |-> <<>>, err |-> e]

\* ParallelDownloader::with_concurrency, then download_all spawning one task
\* per request.
DlIdle ==
    /\ cap = 1
    /\ permits = 1
    /\ inflight = [s \in Shas |-> 0]
    /\ blobs = {}
    /\ dpc = [r \in Reqs |-> "start"]
    /\ leaderOf = [r \in Reqs |-> 0]
    /\ dres = [r \in Reqs |-> NoDl]
    /\ racer = [r \in Reqs |-> [i \in Racers |-> "idle"]]
    /\ done = [r \in Reqs |-> FALSE]
    /\ last_error = [r \in Reqs |-> "none"]

DlInit ==
    /\ cap \in 1..MaxCap
    /\ permits = cap
    /\ inflight = [s \in Shas |-> 0]
    /\ blobs \in SUBSET Shas
    /\ dpc = [r \in Reqs |-> "start"]
    /\ leaderOf = [r \in Reqs |-> 0]
    /\ dres = [r \in Reqs |-> NoDl]
    /\ racer = [r \in Reqs |-> [i \in Racers |-> "idle"]]
    /\ done = [r \in Reqs |-> FALSE]
    /\ last_error = [r \in Reqs |-> "none"]

\* download_with_dedup, under the map lock: is there a sender for the sha?
Subscribes_Never(map, s) == FALSE

Subscribes(map, s) == map[s] # 0

\* download_with_dedup: subscribe to the sender in the map, or insert a new
\* one and become the request that downloads.
DedupCheck(r) ==
    /\ dpc[r] = "start"
    /\ IF Subscribes(inflight, ShaOf(r))
       THEN /\ leaderOf' = [leaderOf EXCEPT ![r] = inflight[ShaOf(r)]]
            /\ dpc' = [dpc EXCEPT ![r] = "wait"]
            /\ UNCHANGED inflight
       ELSE /\ inflight' = [inflight EXCEPT ![ShaOf(r)] = r]
            /\ dpc' = [dpc EXCEPT ![r] = "acquire"]
            /\ UNCHANGED leaderOf
    /\ UNCHANGED <<cap, permits, blobs, dres, racer, done>>
    /\ UNCHANGED last_error
    /\ DlOnly

\* A subscriber receives what the leader broadcast; an error arrives as a
\* NetworkFailure carrying the leader's message.
SubscriberRecv(r) ==
    /\ dpc[r] = "wait"
    /\ dpc[leaderOf[r]] = "done"
    /\ dres' = [dres EXCEPT ![r] = IF dres[leaderOf[r]].ok THEN dres[leaderOf[r]]
                                   ELSE DlErr("NetworkFailure")]
    /\ dpc' = [dpc EXCEPT ![r] = "done"]
    /\ UNCHANGED <<cap, permits, inflight, blobs, leaderOf, racer, done>>
    /\ UNCHANGED last_error
    /\ DlOnly

\* The leader takes one permit of the global semaphore.
AcquirePermit(r) ==
    /\ dpc[r] = "acquire"
    /\ permits > 0
    /\ permits' = permits - 1
    /\ dpc' = [dpc EXCEPT ![r] = "check"]
    /\ UNCHANGED <<cap, inflight, blobs, leaderOf, dres, racer, done>>
    /\ UNCHANGED last_error
    /\ DlOnly

\* download_with_progress: a cached blob is returned at once; otherwise
\* download_with_racing sends its HEAD probe.
CheckBlob(r) ==
    /\ dpc[r] = "check"
    /\ IF ShaOf(r) \in blobs
       THEN /\ dres' = [dres EXCEPT ![r] = DlOk(blob_path(ShaOf(r)))]
            /\ dpc' = [dpc EXCEPT ![r] = "notify"]
       ELSE /\ dpc' = [dpc EXCEPT ![r] = "head"]
            /\ UNCHANGED dres
    /\ UNCHANGED <<cap, permits, inflight, blobs, leaderOf, racer, done>>
    /\ UNCHANGED last_error
    /\ DlOnly

\* The HEAD probe is answered (or fails); the file is below the chunking
\* threshold, so one racing task per connection is spawned.
HeadDone(r) ==
    /\ dpc[r] = "head"
    /\ dpc' = [dpc EXCEPT ![r] = "race"]
    /\ racer' = [racer EXCEPT ![r] = [i \in Racers |-> "sleep"]]
    /\ done' = [done EXCEPT ![r] = FALSE]
    /\ last_error' = [last_error EXCEPT ![r] = "none"]
    /\ UNCHANGED <<cap, permits, inflight, blobs, leaderOf, dres>>
    /\ DlOnly

\* A racing task ends; with ok it also sets the done flag and notifies the
\* tasks waiting at the body gate, which return "cancelled".  The select_all
\* loop reads last_error only after every task has returned an error: once a
\* task has returned Ok the loop returns that Ok, so last_error[r] is kept
\* while no task has won and is "none" from the win on.
RacerEnds(r, i, ok) ==
    [j \in Racers |->
        IF j = i THEN (IF ok THEN "ok" ELSE "err")
        ELSE IF ok /\ racer[r][j] = "gate" THEN "err"
        ELSE racer[r][j]]

\* A racing task wakes from its stagger sleep (task i sleeps i * 200 ms, so
\* the tasks wake in order): it gives up if the race is done, returns the
\* blob if it is there, and otherwise sends its GET.
RacerWake(r, i) ==
    /\ dpc[r] = "race"
    /\ racer[r][i] = "sleep"
    /\ \A j \in Racers : j < i => racer[r][j] # "sleep"
    /\ IF done[r]
       THEN /\ racer' = [racer EXCEPT ![r] = RacerEnds(r, i, FALSE)]
            /\ UNCHANGED <<done, last_error>>
       ELSE IF ShaOf(r) \in blobs
       THEN /\ racer' = [racer EXCEPT ![r] = RacerEnds(r, i, TRUE)]
            /\ done' = [done EXCEPT ![r] = TRUE]
            /\ last_error' = [last_error EXCEPT ![r] = "none"]
       ELSE /\ racer' = [racer EXCEPT ![r][i] = "get"]
            /\ UNCHANGED <<done, last_error>>
    /\ UNCHANGED <<cap, permits, inflight, blobs, dpc, leaderOf, dres>>
    /\ DlOnly

\* fetch_download_response_internal returns: a successful response, whose
\* body is still to be read, or an error.
RacerResponse(r, i, ok) ==
    /\ dpc[r] = "race"
    /\ racer[r][i] = "get"
    /\ racer' = [racer EXCEPT ![r][i] = IF ok THEN "gate" ELSE "err"]
    /\ last_error' = IF ok \/ done[r] THEN last_error
                     ELSE [last_error EXCEPT ![r] = "NetworkFailure"]
    /\ UNCHANGED <<cap, permits, inflight, blobs, dpc, leaderOf, dres, done>>
    /\ DlOnly

\* A body gate that never holds anybody back.
GateFree_Open(r) == TRUE

\* The body gate (a semaphore of one permit) is free when no task reads a body.
GateFree(r) == \A j \in Racers : racer[r][j] \notin {"body", "committed"}

\* A task holding a response takes the body gate, re-checks the done flag and
\* the cache, and starts to read the body.
RacerGate(r, i) ==
    /\ dpc[r] = "race"
    /\ racer[r][i] = "gate"
    /\ GateFree(r)
    /\ IF done[r]
       THEN /\ racer' = [racer EXCEPT ![r] = RacerEnds(r, i, FALSE)]
            /\ UNCHANGED <<done, last_error>>
       ELSE IF ShaOf(r) \in blobs
       THEN /\ racer' = [racer EXCEPT ![r] = RacerEnds(r, i, TRUE)]
            /\ done' = [done EXCEPT ![r] = TRUE]
            /\ last_error' = [last_error EXCEPT ![r] = "none"]
       ELSE /\ racer' = [racer EXCEPT ![r][i] = "body"]
            /\ UNCHANGED <<done, last_error>>
    /\ UNCHANGED <<cap, permits, inflight, blobs, dpc, leaderOf, dres>>
    /\ DlOnly

\* download_response_internal returns: the blob is committed, or the download
\* failed with a NetworkFailure (the stream or a write failed) or with a
\* ChecksumMismatch, and left no blob.
RacerBody(r, i, res) ==
    /\ dpc[r] = "race"
    /\ racer[r][i] = "body"
    /\ IF res = "ok"
       THEN /\ blobs' = blobs \cup {ShaOf(r)}
            /\ racer' = [racer EXCEPT ![r][i] = "committed"]
            /\ UNCHANGED last_error
       ELSE /\ racer' = [racer EXCEPT ![r] = RacerEnds(r, i, FALSE)]
            /\ last_error' = IF done[r] THEN last_error
                             ELSE [last_error EXCEPT ![r] = res]
            /\ UNCHANGED blobs
    /\ UNCHANGED <<cap, permits, inflight, dpc, leaderOf, dres, done>>
    /\ DlOnly

\* The task that committed the blob sets the done flag and returns the path.
RacerFinish(r, i) ==
    /\ dpc[r] = "race"
    /\ racer[r][i] = "committed"
    /\ racer' = [racer EXCEPT ![r] = RacerEnds(r, i, TRUE)]
    /\ done' = [done EXCEPT ![r] = TRUE]
    /\ UNCHANGED <<cap, permits, inflight, blobs, dpc, leaderOf, dres>>
    /\ last_error' = [last_error EXCEPT ![r] = "none"]
    /\ DlOnly

\* The select_all loop returning with the first result it sees, an error
\* included.
RaceEnd_FirstResult(r) ==
    /\ dpc[r] = "race"
    /\ \/ /\ \E i \in Racers : racer[r][i] = "ok"
          /\ dres' = [dres EXCEPT ![r] = DlOk(blob_path(ShaOf(r)))]
       \/ /\ \E i \in Racers : racer[r][i] = "err"
          /\ dres' = [dres EXCEPT ![r] = DlErr(last_error[r])]
    /\ racer' = [racer EXCEPT ![r] = [i \in Racers |-> "idle"]]
    /\ done' = [done EXCEPT ![r] = FALSE]
    /\ last_error' = [last_error EXCEPT ![r] = "none"]
    /\ dpc' = [dpc EXCEPT ![r] = "notify"]
    /\ UNCHANGED <<cap, permits, inflight, blobs, leaderOf>>
    /\ DlOnly

\* The select_all loop of download_with_racing: the first task that returns
\* Ok ends the race and the others are aborted; when every task has returned
\* an error the last error is the result.
RaceEnd(r) ==
    /\ dpc[r] = "race"
    /\ \/ /\ \E i \in Racers : racer[r][i] = "ok"
          /\ dres' = [dres EXCEPT ![r] = DlOk(blob_path(ShaOf(r)))]
       \/ /\ \A i \in Racers : racer[r][i] = "err"
          /\ dres' = [dres EXCEPT ![r] = DlErr(last_error[r])]
    /\ racer' = [racer EXCEPT ![r] = [i \in Racers |-> "idle"]]
    /\ done' = [done EXCEPT ![r] = FALSE]
    /\ last_error' = [last_error EXCEPT ![r] = "none"]
    /\ dpc' = [dpc EXCEPT ![r] = "notify"]
    /\ UNCHANGED <<cap, permits, inflight, blobs, leaderOf>>
    /\ DlOnly

\* The leader removes the sha from the map, broadcasts the result and returns,
\* which gives its permit back.
Notify(r) ==
    /\ dpc[r] = "notify"
    /\ inflight' = [inflight EXCEPT ![ShaOf(r)] = 0]
    /\ permits' = permits + 1
    /\ dpc' = [dpc EXCEPT ![r] = "done"]
    /\ UNCHANGED <<cap, blobs, leaderOf, dres, racer, done>>
    /\ UNCHANGED last_error
    /\ DlOnly

\* The downloads of NextDownload, where reading a body may also end with a
\* checksum mismatch.
NextDedup ==
    \/ \E r \in Reqs : DedupCheck(r)
    \/ \E r \in Reqs : SubscriberRecv(r)
    \/ \E r \in Reqs : AcquirePermit(r)
    \/ \E r \in Reqs : CheckBlob(r)
    \/ \E r \in Reqs : HeadDone(r)
    \/ \E r \in Reqs, i \in Racers : RacerWake(r, i)
    \/ \E r \in Reqs, i \in Racers, ok \in BOOLEAN : RacerResponse(r, i, ok)
    \/ \E r \in Reqs, i \in Racers : RacerGate(r, i)
    \/ \E r \in Reqs, i \in Racers, res \in BodyResults : RacerBody(r, i, res)
    \/ \E r \in Reqs, i \in Racers : RacerFinish(r, i)
    \/ \E r \in Reqs : RaceEnd(r)
    \/ \E r \in Reqs : Notify(r)

NextDownload ==
    \/ \E r \in Reqs : DedupCheck(r)
    \/ \E r \in Reqs : SubscriberRecv(r)
    \/ \E r \in Reqs : AcquirePermit(r)
    \/ \E r \in Reqs : CheckBlob(r)
    \/ \E r \in Reqs : HeadDone(r)
    \/ \E r \in Reqs, i \in Racers : RacerWake(r, i)
    \/ \E r \in Reqs, i \in Racers, ok \in BOOLEAN : RacerResponse(r, i, ok)
    \/ \E r \in Reqs, i \in Racers : RacerGate(r, i)
    \/ \E r \in Reqs, i \in Racers, res \in {"ok", "NetworkFailure"} :
          RacerBody(r, i, res)
    \/ \E r \in Reqs, i \in Racers : RacerFinish(r, i)
    \/ \E r \in Reqs : RaceEnd(r)
    \/ \E r \in Reqs : Notify(r)

(***************************************************************************)
(*         PART 4: CHUNKED DOWNLOADS (network/download/mod.rs)             *)
(***************************************************************************)

MiB == 1048576
CHUNKED_DOWNLOAD_THRESHOLD == 10 * MiB
GLOBAL_DOWNLOAD_CONCURRENCY == 20
MAX_CONCURRENT_CHUNKS == 6
MAX_CHUNK_RETRIES == 3
\* Bound: failing responses the server gives during one download.
MaxFailures == 2

\* Content-Length values tried: below the threshold, at it, and sizes the
\* partition cuts into 5, 6 and 7 chunks (HOMEBREW_BOTTLE_MIRRORS is unset,
\* so the primary URL is the only one).
FileSizes == {4 * MiB, 10 * MiB, 25 * MiB, 36 * MiB, 40 * MiB}

\* The chunk size without its upper limit.
calculate_chunk_size_NoMax(file_size) ==
    Max(5 * MiB, file_size \div MAX_CONCURRENT_CHUNKS)

calculate_chunk_size(file_size) ==
    Max(5 * MiB, Min(20 * MiB, file_size \div MAX_CONCURRENT_CHUNKS))

RECURSIVE chunk_ranges_from(_, _)
chunk_ranges_from(file_size, offset) ==
    IF offset < file_size
    THEN LET size == Min(file_size - offset, calculate_chunk_size(file_size))
         IN  <<[offset |-> offset, size |-> size]>>
                 \o chunk_ranges_from(file_size, offset + size)
    ELSE <<>>

calculate_chunk_ranges(file_size) == chunk_ranges_from(file_size, 0)

\* The indices of the chunk tasks of the sizes tried.
ChunkIds == UNION {DOMAIN calculate_chunk_ranges(s) : s \in FileSizes}

\* Downloader::new and download: no shared semaphore is passed in, so the
\* chunk tasks get a fresh one of GLOBAL_DOWNLOAD_CONCURRENCY permits.
ChunkIdle ==
    /\ csize = 0
    /\ cpc = "done"
    /\ cperm = GLOBAL_DOWNLOAD_CONCURRENCY
    /\ ctask = <<>>
    /\ cfail = 0
    /\ cres = "none"

ChunkInit ==
    /\ csize \in FileSizes
    /\ cpc = "head"
    /\ cperm = GLOBAL_DOWNLOAD_CONCURRENCY
    /\ ctask = <<>>
    /\ cfail = 0
    /\ cres = "none"

\* download_with_racing: the HEAD probe decides between the chunked and the
\* racing download; the chunked one first asks for bytes=0-0.
HeadProbe(supports_ranges) ==
    /\ cpc = "head"
    /\ IF supports_ranges /\ csize >= CHUNKED_DOWNLOAD_THRESHOLD
       THEN cpc' = "probe" /\ UNCHANGED cres
       ELSE cpc' = "done" /\ cres' = "racing"
    /\ UNCHANGED <<csize, cperm, ctask, cfail>>
    /\ ChunkOnly

\* validate_range_support answers; download_with_chunks then spawns one task
\* per chunk, falls back to one plain GET, or fails.
ProbeDone(answer) ==
    /\ cpc = "probe"
    /\ CASE answer = "partial" ->
                /\ ctask' = [i \in 1..Len(calculate_chunk_ranges(csize)) |->
                                [st |-> "permit", attempt |-> 0]]
                /\ cpc' = "tasks"
                /\ UNCHANGED cres
         [] answer = "full" ->
                /\ cpc' = "done"
                /\ cres' = "plain"
                /\ UNCHANGED ctask
         [] OTHER ->
                /\ cpc' = "done"
                /\ cres' = "err"
                /\ UNCHANGED ctask
    /\ UNCHANGED <<csize, cperm, cfail>>
    /\ ChunkOnly

\* A chunk task takes a permit of the global semaphore and download_chunk
\* sends its range request.
ChunkAcquire(i) ==
    /\ cpc = "tasks"
    /\ i \in DOMAIN ctask
    /\ ctask[i].st = "permit"
    /\ cperm > 0
    /\ cperm' = cperm - 1
    /\ ctask' = [ctask EXCEPT ![i].st = "get"]
    /\ UNCHANGED <<csize, cpc, cfail, cres>>
    /\ ChunkOnly

\* download_chunk gets its answer: the bytes of the chunk; a network error or
\* a 5xx, retried after a backoff while attempts remain; or an answer that is
\* not retried.  A task that ends gives its permit back.
ChunkResponse(i, answer) ==
    /\ cpc = "tasks"
    /\ i \in DOMAIN ctask
    /\ ctask[i].st = "get"
    /\ answer # "ok" => cfail < MaxFailures
    /\ cfail' = IF answer = "ok" THEN cfail ELSE cfail + 1
    /\ IF answer = "retryable" /\ ctask[i].attempt < MAX_CHUNK_RETRIES
       THEN /\ ctask' = [ctask EXCEPT ![i] = [st |-> "sleep", attempt |-> @.attempt + 1]]
            /\ UNCHANGED cperm
       ELSE /\ ctask' = [ctask EXCEPT ![i].st = IF answer = "ok" THEN "ok" ELSE "err"]
            /\ cperm' = cperm + 1
    /\ UNCHANGED <<csize, cpc, cres>>
    /\ ChunkOnly

\* The backoff of a retried chunk ends and the range request is sent again.
ChunkRetry(i) ==
    /\ cpc = "tasks"
    /\ i \in DOMAIN ctask
    /\ ctask[i].st = "sleep"
    /\ ctask' = [ctask EXCEPT ![i].st = "get"]
    /\ UNCHANGED <<csize, cpc, cperm, cfail, cres>>
    /\ ChunkOnly

\* Every task has ended, so the channel closes: the download succeeds when
\* every chunk arrived and fails otherwise.
ChunksEnd ==
    /\ cpc = "tasks"
    /\ \A i \in DOMAIN ctask : ctask[i].st \in {"ok", "err"}
    /\ cres' = IF \A i \in DOMAIN ctask : ctask[i].st = "ok" THEN "ok" ELSE "err"
    /\ cpc' = "done"
    /\ UNCHANGED <<csize, cperm, ctask, cfail>>
    /\ ChunkOnly

NextChunked ==
    \/ \E b \in BOOLEAN : HeadProbe(b)
    \/ \E a \in {"partial", "full", "err"} : ProbeDone(a)
    \/ \E i \in ChunkIds : ChunkAcquire(i)
    \/ \E i \in ChunkIds, a \in {"ok", "retryable", "fatal"} : ChunkResponse(i, a)
    \/ \E i \in ChunkIds : ChunkRetry(i)
    \/ ChunksEnd

\* ParallelDownloader::with_concurrency(cache, n) and one request submitted:
\* the Downloader shares the semaphore of n permits, and download_with_dedup
\* has not yet taken its permit.
ChunkInitShared ==
    /\ csize \in FileSizes
    /\ cpc = "acquire"
    /\ cperm \in 1..MaxCap
    /\ ctask = <<>>
    /\ cfail = 0
    /\ cres = "none"

\* download_with_dedup takes its permit of the shared semaphore and calls
\* download_with_progress, which sends the HEAD probe.
DownloadAcquire ==
    /\ cpc = "acquire"
    /\ cperm > 0
    /\ cperm' = cperm - 1
    /\ cpc' = "head"
    /\ UNCHANGED <<csize, ctask, cfail, cres>>
    /\ ChunkOnly

\* download_with_dedup returns the result, which gives its permit back.
DownloadReturn ==
    /\ cpc = "done"
    /\ cres # "none"
    /\ cperm' = cperm + 1
    /\ cpc' = "returned"
    /\ UNCHANGED <<csize, ctask, cfail, cres>>
    /\ ChunkOnly

NextShared ==
    \/ DownloadAcquire
    \/ \E b \in BOOLEAN : HeadProbe(b)
    \/ \E a \in {"partial", "full", "err"} : ProbeDone(a)
    \/ \E i \in ChunkIds : ChunkAcquire(i)
    \/ \E i \in ChunkIds, a \in {"ok", "retryable", "fatal"} : ChunkResponse(i, a)
    \/ \E i \in ChunkIds : ChunkRetry(i)
    \/ ChunksEnd
    \/ DownloadReturn

\* ---- calculate_chunk_ranges on its own ----
\* Bound: the largest Content-Length tried, in MiB.
MaxSizeMiB == 130

\* Every multiple of one MiB up to the bound, and the sizes one byte off.
RangeSizes == {s \in {k * MiB + d : k \in 0..MaxSizeMiB, d \in {-1, 0, 1}} : s > 0}

RangesInit ==
    /\ csize \in RangeSizes
    /\ cpc = "ranges"
    /\ cperm = GLOBAL_DOWNLOAD_CONCURRENCY
    /\ ctask = <<>>
    /\ cfail = 0
    /\ cres = "none"

\* let chunks = calculate_chunk_ranges(ctx.file_size): here ctask holds the
\* ChunkRange list itself.
CalculateRanges ==
    /\ cpc = "ranges"
    /\ ctask' = calculate_chunk_ranges(csize)
    /\ cpc' = "ranged"
    /\ UNCHANGED <<csize, cperm, cfail, cres>>
    /\ ChunkOnly

NextRanges == CalculateRanges

(***************************************************************************)
(*   PART 5: DOWNLOAD INTO THE BLOB CACHE (download_response_internal)     *)
(***************************************************************************)

\* Bounds: chunks of a body, bytes of a chunk, and the number of digests.
MaxChunks == 2
MaxChunkLen == 2
HashMod == 5

Bytes == {0, 1}
Digests == 0..(HashMod - 1)
BodyChunks == UNION {[1..n -> Bytes] : n \in 1..MaxChunkLen}
Bodies == UNION {[1..n -> BodyChunks] : n \in 0..MaxChunks}
NoFile == [exists |-> FALSE, data |-> <<>>]
File(data) == [exists |-> TRUE, data |-> data]

\* Sha256::update, byte by byte over one chunk.
hasher_update_Skipped(h, chunk) == h

RECURSIVE hasher_update(_, _)
hasher_update(h, chunk) ==
    IF chunk = <<>> THEN h
    ELSE hasher_update((2 * h + Head(chunk) + 1) % HashMod, Tail(chunk))

\* The sha256 of a whole byte string.
RECURSIVE sha256(_)
sha256(bytes) ==
    IF bytes = <<>> THEN 0
    ELSE (2 * sha256(SubSeq(bytes, 1, Len(bytes) - 1)) + bytes[Len(bytes)] + 1) % HashMod

\* No chunked download is running.
EmptyMap == [o \in {} |-> <<>>]
WriterLoopIdle ==
    /\ chandles = <<>>
    /\ received_chunks = EmptyMap
    /\ next_expected_offset = 0
    /\ chunks_written = 0

BlobIdle ==
    /\ bkey = 0
    /\ payload = <<>>
    /\ received = <<>>
    /\ hasher = 0
    /\ part = NoFile
    /\ blob = NoFile
    /\ wpc = "done"
    /\ bresult = "none"
    /\ WriterLoopIdle

\* A response has arrived for a key that has no blob yet.
BlobInit ==
    /\ bkey \in Digests
    /\ payload \in Bodies
    /\ received = <<>>
    /\ hasher = 0
    /\ part = NoFile
    /\ blob = NoFile
    /\ wpc = "start"
    /\ bresult = "none"
    /\ WriterLoopIdle

\* An early return: the writer is dropped without commit, which removes the
\* part file.
Fails(err) ==
    /\ bresult' = err
    /\ part' = NoFile
    /\ wpc' = "done"

\* BlobCache::start_write creates the part file; Sha256::new.
StartWrite(ok) ==
    /\ wpc = "start"
    /\ IF ok
       THEN part' = File(<<>>) /\ wpc' = "stream" /\ UNCHANGED bresult
       ELSE Fails("NetworkFailure")
    /\ UNCHANGED <<bkey, payload, received, hasher, blob>>
    /\ UNCHANGED writerLoopVars
    /\ BlobOnly

\* The stream loop writing under the final name instead of the part name.
StreamChunk_FinalName(fault) ==
    /\ wpc = "stream"
    /\ payload # <<>>
    /\ payload' = Tail(payload)
    /\ CASE fault = "read" ->
                Fails("NetworkFailure") /\ UNCHANGED <<received, hasher, blob>>
         [] fault = "write" ->
                /\ Fails("NetworkFailure")
                /\ received' = received \o Head(payload)
                /\ hasher' = hasher_update(hasher, Head(payload))
                /\ UNCHANGED blob
         [] OTHER ->
                /\ received' = received \o Head(payload)
                /\ hasher' = hasher_update(hasher, Head(payload))
                /\ blob' = File(received \o Head(payload))
                /\ UNCHANGED <<part, wpc, bresult>>
    /\ UNCHANGED bkey
    /\ UNCHANGED writerLoopVars
    /\ BlobOnly

\* One turn of the stream loop: the next chunk arrives, goes into the hasher
\* and is written; reading or writing it may fail.
StreamChunk(fault) ==
    /\ wpc = "stream"
    /\ payload # <<>>
    /\ payload' = Tail(payload)
    /\ CASE fault = "read" ->
                Fails("NetworkFailure") /\ UNCHANGED <<received, hasher>>
         [] fault = "write" ->
                /\ Fails("NetworkFailure")
                /\ received' = received \o Head(payload)
                /\ hasher' = hasher_update(hasher, Head(payload))
         [] OTHER ->
                /\ received' = received \o Head(payload)
                /\ hasher' = hasher_update(hasher, Head(payload))
                /\ part' = File(part.data \o Head(payload))
                /\ UNCHANGED <<wpc, bresult>>
    /\ UNCHANGED <<bkey, blob>>
    /\ UNCHANGED writerLoopVars
    /\ BlobOnly

\* The stream has ended: the digest is compared with the expected key.
StreamEnd ==
    /\ wpc = "stream"
    /\ payload = <<>>
    /\ IF hasher # bkey
       THEN Fails("ChecksumMismatch")
       ELSE wpc' = "flush" /\ UNCHANGED <<part, bresult>>
    /\ UNCHANGED <<bkey, payload, received, hasher, blob>>
    /\ UNCHANGED writerLoopVars
    /\ BlobOnly

\* writer.flush
Flush(ok) ==
    /\ wpc = "flush"
    /\ IF ok
       THEN wpc' = "commit" /\ UNCHANGED <<part, bresult>>
       ELSE Fails("NetworkFailure")
    /\ UNCHANGED <<bkey, payload, received, hasher, blob>>
    /\ UNCHANGED writerLoopVars
    /\ BlobOnly

\* BlobWriter::commit verifies the digest of what was written and renames the
\* part file into blobs/.
Commit(ok) ==
    /\ wpc = "commit"
    /\ IF ~ok THEN Fails("NetworkFailure") /\ UNCHANGED blob
       ELSE IF sha256(part.data) # bkey THEN Fails("ChecksumMismatch") /\ UNCHANGED blob
       ELSE /\ blob' = part
            /\ part' = NoFile
            /\ bresult' = "ok"
            /\ wpc' = "done"
    /\ UNCHANGED <<bkey, payload, received, hasher>>
    /\ UNCHANGED writerLoopVars
    /\ BlobOnly

NextBlob ==
    \/ \E ok \in BOOLEAN : StartWrite(ok)
    \/ \E f \in {"none", "read", "write"} : StreamChunk(f)
    \/ StreamEnd
    \/ \E ok \in BOOLEAN : Flush(ok)
    \/ \E ok \in BOOLEAN : Commit(ok)

\* ---- download_with_chunks writing into the blob cache ----
\* Here payload is the body cut at the chunk ranges: chunk i is the data of
\* the range that starts at OffsetOf(i). download_chunk returns data of the
\* range's size or an error (mod.rs:813-821), so the two checks at the top of
\* the receive loop (942-957) never fire and are left out.
RECURSIVE Flatten(_)
Flatten(chunks) ==
    IF chunks = <<>> THEN <<>> ELSE Head(chunks) \o Flatten(Tail(chunks))

OffsetOf(i) == Len(Flatten(SubSeq(payload, 1, i - 1)))
file_size == Len(Flatten(payload))
first_key(map) == CHOOSE k \in DOMAIN map : \A o \in DOMAIN map : k <= o
insert(map, k, v) == [o \in DOMAIN map \cup {k} |-> IF o = k THEN v ELSE map[o]]
pop_first(map) == [o \in DOMAIN map \ {first_key(map)} |-> map[o]]

\* The inner loop writing whatever is first in the map, whatever its offset.
RECURSIVE write_ready_Unordered(_, _, _, _, _)
write_ready_Unordered(map, next, h, data, fail) ==
    IF DOMAIN map = {}
    THEN [map |-> map, next |-> next, hasher |-> h, data |-> data, failed |-> FALSE]
    ELSE LET chunk_data == map[first_key(map)]
         IN  IF fail
             THEN [map |-> pop_first(map), next |-> next,
                   hasher |-> hasher_update(h, chunk_data), data |-> data,
                   failed |-> TRUE]
             ELSE write_ready_Unordered(pop_first(map), next + Len(chunk_data),
                                        hasher_update(h, chunk_data),
                                        data \o chunk_data, FALSE)

\* The inner loop of the receive loop: while the first entry of the map is at
\* next_expected_offset it is popped, hashed and written, and the offset
\* advances by its length; a failed write_all returns.
RECURSIVE write_ready(_, _, _, _, _)
write_ready(map, next, h, data, fail) ==
    IF DOMAIN map = {} \/ first_key(map) # next
    THEN [map |-> map, next |-> next, hasher |-> h, data |-> data, failed |-> FALSE]
    ELSE LET chunk_data == map[first_key(map)]
         IN  IF fail
             THEN [map |-> pop_first(map), next |-> next,
                   hasher |-> hasher_update(h, chunk_data), data |-> data,
                   failed |-> TRUE]
             ELSE write_ready(pop_first(map), next + Len(chunk_data),
                              hasher_update(h, chunk_data),
                              data \o chunk_data, FALSE)

\* download_with_chunks up to the spawn of the chunk tasks: a file at or above
\* the threshold has at least two ranges; start_write creates the part file.
ChunkedStart(ok) ==
    /\ wpc = "start"
    /\ Len(payload) > 1
    /\ IF ok
       THEN /\ part' = File(<<>>)
            /\ wpc' = "recv"
            /\ chandles' = [i \in DOMAIN payload |-> "run"]
            /\ UNCHANGED bresult
       ELSE Fails("NetworkFailure") /\ UNCHANGED chandles
    /\ UNCHANGED <<bkey, payload, received, hasher, blob>>
    /\ UNCHANGED <<received_chunks, next_expected_offset, chunks_written>>
    /\ BlobOnly

\* A chunk task sends its chunk and the receive loop takes it: it goes into
\* the map, is counted, and the inner loop writes what is ready. The channel
\* is unbounded and has one reader, so a send and its receive are one step.
ChunkArrives(i, fail) ==
    /\ wpc = "recv"
    /\ i \in DOMAIN chandles
    /\ chandles[i] = "run"
    /\ LET map == insert(received_chunks, OffsetOf(i), payload[i])
           w == write_ready(map, next_expected_offset, hasher, part.data, fail)
       IN  /\ fail => first_key(map) = next_expected_offset
           /\ chandles' = [chandles EXCEPT ![i] = "sent"]
           /\ chunks_written' = chunks_written + 1
           /\ received_chunks' = w.map
           /\ next_expected_offset' = w.next
           /\ hasher' = w.hasher
           /\ IF w.failed
              THEN Fails("NetworkFailure")
              ELSE part' = File(w.data) /\ UNCHANGED <<wpc, bresult>>
    /\ UNCHANGED <<bkey, payload, received, blob>>
    /\ BlobOnly

\* download_chunk gave up: the task returns its error and sends nothing.
ChunkTaskFails(i) ==
    /\ wpc = "recv"
    /\ i \in DOMAIN chandles
    /\ chandles[i] = "run"
    /\ chandles' = [chandles EXCEPT ![i] = "err"]
    /\ UNCHANGED <<bkey, payload, received, hasher, part, blob, wpc, bresult>>
    /\ UNCHANGED <<received_chunks, next_expected_offset, chunks_written>>
    /\ BlobOnly

\* Every sender is gone, so the channel is closed and the receive loop ends:
\* the handles are awaited, then the count of chunks, the written length and
\* the digest are checked.
ChunksJoined ==
    /\ wpc = "recv"
    /\ \A i \in DOMAIN chandles : chandles[i] # "run"
    /\ IF \E i \in DOMAIN chandles : chandles[i] = "err"
       THEN Fails("NetworkFailure")
       ELSE IF chunks_written # Len(payload) THEN Fails("NetworkFailure")
       ELSE IF next_expected_offset # file_size THEN Fails("NetworkFailure")
       ELSE IF hasher # bkey THEN Fails("ChecksumMismatch")
       ELSE wpc' = "flush" /\ UNCHANGED <<part, bresult>>
    /\ UNCHANGED <<bkey, payload, received, hasher, blob>>
    /\ UNCHANGED writerLoopVars
    /\ BlobOnly

ChunkIdx == 1..MaxChunks

\* Either way of filling the blob cache: one response streamed, or chunks.
NextCache ==
    \/ \E ok \in BOOLEAN : StartWrite(ok)
    \/ \E f \in {"none", "read", "write"} : StreamChunk(f)
    \/ StreamEnd
    \/ \E ok \in BOOLEAN : ChunkedStart(ok)
    \/ \E i \in ChunkIdx : \E fail \in BOOLEAN : ChunkArrives(i, fail)
    \/ \E i \in ChunkIdx : ChunkTaskFails(i)
    \/ ChunksJoined
    \/ \E ok \in BOOLEAN : Flush(ok)
    \/ \E ok \in BOOLEAN : Commit(ok)

(***************************************************************************)
(*           PART 6: THE DEPENDENCY RESOLVER (zb_core/src/resolve.rs)      *)
(***************************************************************************)

\* Bounds: the longest dependency list and the longest list of roots.
MaxDeps == 2
MaxRoots == 2

\* Formula names, numbered in their lexicographic order (the order of the
\* BTreeMap and BTreeSet keys).
Names == {1, 2, 3}

\* Vec<String> of at most n names; a name may occur more than once.
NameLists(n) == UNION {[1..k -> Names] : k \in 0..n}

\* BTreeMap<String, Formula>: a formula for some of the names, each with its
\* dependencies field.
FormulaMaps == UNION {[D -> NameLists(MaxDeps)] : D \in SUBSET Names}

NoResolve == [kind |-> "none"]

ResIdle ==
    /\ rroots = <<>>
    /\ rformulas = <<>>
    /\ rresult = NoResolve

\* Any formula map may have been fetched.
ResInit ==
    /\ rroots = <<>>
    /\ rformulas \in FormulaMaps
    /\ rresult = NoResolve

\* Vec::sort of a list of names: position i holds the least name x such that
\* at least i entries of the list are <= x.
sort(s) ==
    LET upTo(x) == Cardinality({j \in DOMAIN s : s[j] <= x})
    IN  [i \in DOMAIN s |->
            CHOOSE x \in Names : upTo(x) >= i /\ \A y \in Names : y < x => upTo(y) < i]

\* compute_closure from the point where stack and closure are as given: pop a
\* name, skip it when it is in the closure already, fail when the map has no
\* formula for it, else push its sorted dependencies that are in the map and
\* not in the closure.
RECURSIVE compute_closure(_, _, _)
compute_closure(stack, closure, formulas) ==
    IF stack = <<>> THEN [ok |-> TRUE, closure |-> closure]
    ELSE LET name == stack[Len(stack)]
             rest == SubSeq(stack, 1, Len(stack) - 1)
             inserted == closure \cup {name}
         IN  IF name \in closure THEN compute_closure(rest, closure, formulas)
             ELSE IF name \notin DOMAIN formulas
             THEN [ok |-> FALSE, name |-> name]
             ELSE compute_closure(
                      rest \o SelectSeq(sort(formulas[name]),
                                        LAMBDA dep : /\ dep \in DOMAIN formulas
                                                     /\ dep \notin inserted),
                      inserted, formulas)

\* build_graph that counts no dependency: every member starts ready.
build_graph_Uncounted(closure, formulas) ==
    [indegree |-> [name \in closure |-> 0],
     adjacency |->
        [dep \in closure |->
            {name \in closure : \E i \in DOMAIN formulas[name] : formulas[name][i] = dep}]]

\* build_graph: indegree counts, for each member, the entries of its
\* dependency list that are in the closure (an entry listed twice counts
\* twice); adjacency maps a dependency to the set of members that list it.
build_graph(closure, formulas) ==
    [indegree |->
        [name \in closure |->
            Cardinality({i \in DOMAIN formulas[name] : formulas[name][i] \in closure})],
     adjacency |->
        [dep \in closure |->
            {name \in closure : \E i \in DOMAIN formulas[name] : formulas[name][i] = dep}]]

\* The while loop of resolve_closure: take the least ready name, push it to
\* ordered, decrement the count of each of its children and make ready those
\* that reach 0.
RECURSIVE kahn(_, _, _, _)
kahn(ready, ordered, indegree, adjacency) ==
    IF ready = {} THEN [ordered |-> ordered, indegree |-> indegree]
    ELSE LET name == CHOOSE n \in ready : \A m \in ready : n <= m
             children == adjacency[name]
             counted == [n \in DOMAIN indegree |->
                            IF n \in children THEN indegree[n] - 1 ELSE indegree[n]]
         IN  kahn((ready \ {name}) \cup {c \in children : counted[c] = 0},
                  Append(ordered, name), counted, adjacency)

\* resolve_closure without the comparison of ordered.len() and closure.len().
resolve_closure_Unchecked(roots, formulas) ==
    LET c == compute_closure(roots, {}, formulas)
        g == build_graph(c.closure, formulas)
        k == kahn({n \in c.closure : g.indegree[n] = 0}, <<>>, g.indegree, g.adjacency)
    IN  IF ~c.ok THEN [kind |-> "MissingFormula", name |-> c.name]
        ELSE [kind |-> "Ok", ordered |-> k.ordered]

\* resolve_closure(roots, formulas); the error carries, besides the names of
\* Error::DependencyCycle, the names that were ordered before the loop ended.
resolve_closure(roots, formulas) ==
    LET c == compute_closure(roots, {}, formulas)
        g == build_graph(c.closure, formulas)
        k == kahn({n \in c.closure : g.indegree[n] = 0}, <<>>, g.indegree, g.adjacency)
    IN  IF ~c.ok THEN [kind |-> "MissingFormula", name |-> c.name]
        ELSE IF Len(k.ordered) # Cardinality(c.closure)
        THEN [kind |-> "DependencyCycle",
              cycle |-> {n \in c.closure : k.indegree[n] > 0},
              ordered |-> k.ordered]
        ELSE [kind |-> "Ok", ordered |-> k.ordered]

\* The planner calls the resolver on any roots and the fetched formulas.
Resolve(roots) ==
    /\ rresult = NoResolve
    /\ rroots' = roots
    /\ rresult' = resolve_closure(roots, rformulas)
    /\ UNCHANGED rformulas
    /\ ResOnly

NextResolve == \E roots \in NameLists(MaxRoots) : Resolve(roots)

\* ---- Installer::fetch_all_formulas (installer/install.rs) ----
\* Here a formula map is what the API serves: get_formula of a name outside
\* its domain returns an error. Every formula served has a bottle.

\* The loop over the results of one batch, from result i on: the first error
\* is returned; otherwise each dependency that is neither fetched nor queued
\* is pushed to to_fetch.
RECURSIVE queue_deps(_, _, _, _, _)
queue_deps(batch, i, to_fetch, fetched, api) ==
    IF i > Len(batch) THEN [ok |-> TRUE, to_fetch |-> to_fetch]
    ELSE IF batch[i] \notin DOMAIN api THEN [ok |-> FALSE, name |-> batch[i]]
    ELSE LET deps == api[batch[i]]
             push(queue, k) ==
                 IF deps[k] \notin fetched /\ \A m \in DOMAIN queue : queue[m] # deps[k]
                 THEN Append(queue, deps[k]) ELSE queue
             RECURSIVE pushed(_, _)
             pushed(queue, k) ==
                 IF k > Len(deps) THEN queue ELSE pushed(push(queue, k), k + 1)
         IN  queue_deps(batch, i + 1, pushed(to_fetch, 1), fetched, api)

\* The while loop of fetch_all_formulas: the batch is to_fetch without the
\* names fetched before; its names are marked fetched and one get_formula is
\* sent for each entry of the batch.
RECURSIVE fetch_batches(_, _, _, _)
fetch_batches(to_fetch, fetched, requests, api) ==
    LET batch == SelectSeq(to_fetch, LAMBDA n : n \notin fetched)
        marked == fetched \cup {batch[i] : i \in DOMAIN batch}
        q == queue_deps(batch, 1, <<>>, marked, api)
    IN  IF batch = <<>>
        THEN [kind |-> "Ok", formulas |-> fetched, requests |-> requests]
        ELSE IF ~q.ok
        THEN [kind |-> "Err", name |-> q.name, requests |-> requests \o batch]
        ELSE fetch_batches(q.to_fetch, marked, requests \o batch, api)

fetch_all_formulas(names, api) == fetch_batches(names, {}, <<>>, api)

\* plan_with_options fetches the formulas of the names it was given.
FetchAll(names) ==
    /\ rresult = NoResolve
    /\ rroots' = names
    /\ rresult' = fetch_all_formulas(names, rformulas)
    /\ UNCHANGED rformulas
    /\ ResOnly

NextFetch == \E names \in NameLists(MaxRoots) : FetchAll(names)

(***************************************************************************)
(*          PART 7: THE LINKER ON A SHARED PREFIX (cellar/link.rs)         *)
(***************************************************************************)

\* The kegs of the cellar and the files each holds under the link
\* directories: two versions of foo, and bar, which ships its own bin/foo.
LinkKegs == {Keg("foo", <<"1.0.0">>), Keg("foo", <<"2.0.0">>), Keg("bar", <<"1.0.0">>)}
\* And baz and qux, whose files lie at destinations no other keg has.
MergeKegs == LinkKegs \cup {Keg("baz", <<"1.0.0">>), Keg("qux", <<"1.0.0">>)}
KegFiles(keg) ==
    IF keg = Keg("foo", <<"1.0.0">>) THEN {"bin/foo", "share/man/foo.1"}
    ELSE IF keg = Keg("foo", <<"2.0.0">>) THEN {"bin/foo"}
    ELSE IF keg = Keg("baz", <<"1.0.0">>) THEN {"bin/baz", "share/man/baz.1"}
    ELSE IF keg = Keg("qux", <<"1.0.0">>) THEN {}
    ELSE {"bin/foo", "bin/bar", "share/man/bar.1"}
LFiles == UNION {KegFiles(k) : k \in MergeKegs}

\* share/man is the one directory below a link directory; Nested are the
\* files in it.
Nested == {"share/man/foo.1", "share/man/bar.1", "share/man/baz.1"}

\* What a keg has at share/man: nothing, a directory, (baz) a symlink to
\* a directory of the keg, as in man -> ../gnuman, or (qux) a regular file.
ManEntry(keg) ==
    IF keg.name = "qux" THEN "file"
    ELSE IF KegFiles(keg) \cap Nested = {} THEN "none"
    ELSE IF keg.name = "baz" THEN "dirlink" ELSE "dir"

\* The destinations link_keg gives a keg: one per file, where share/man
\* counts as a file when the keg has a file there.
Destinations(keg) ==
    KegFiles(keg) \cup (IF ManEntry(keg) = "file" THEN {"share/man"} ELSE {})

\* A test for a directory that does not follow symlinks.
src_is_dir_NoFollow(keg) == ManEntry(keg) = "dir"

\* src_path.is_dir() for the keg's share/man: it follows symlinks.
src_is_dir(keg) == ManEntry(keg) \in {"dir", "dirlink"}

\* The cellar: a keg is whole (its files are regular files), or its bin
\* entries are symlinks whose target is missing, or its directory is gone.
KegStates == {"whole", "broken", "gone"}
\* read_dir of the keg's link directories: nothing once the keg is gone.
Entries(keg) == IF kstate[keg] = "gone" THEN {} ELSE KegFiles(keg)
\* The keg's share/man is there and is not a directory.
ManIsFile(keg) == kstate[keg] # "gone" /\ ManEntry(keg) = "file"
Dangling(keg) == IF kstate[keg] = "broken" THEN KegFiles(keg) \ Nested ELSE {}

\* fs::canonicalize(..).ok() of <keg>/f and of the keg directory: None when
\* the path does not resolve to something that exists.
None == <<>>
canonicalize(keg, f) ==
    IF f \in Entries(keg) \ Dangling(keg) THEN <<keg, f>> ELSE None
canonicalize_keg(keg) == IF kstate[keg] = "gone" THEN None ELSE <<keg>>

\* What sits at a path of the prefix: nothing, a file or directory that is
\* not a symlink, or a symlink to the same relative path inside keg k (which
\* dangles when k has nothing there).
NoNode == [kind |-> "none"]
Plain(kind) == [kind |-> kind]
Link(k) == [kind |-> "link", keg |-> k]
FileNodes == {NoNode, Plain("file")} \cup {Link(k) : k \in LinkKegs}
DirNodes == {NoNode, Plain("file"), Plain("dir")} \cup {Link(k) : k \in LinkKegs}

\* The test of link_recursive, unlink_recursive, collect_conflicts and
\* is_linked for "the symlink at the destination is this keg's":
\* canonicalize(resolved).ok() == canonicalize(src_path).ok().
same_target(node, keg, f) ==
    node.kind = "link" /\ canonicalize(node.keg, f) = canonicalize(keg, f)

NoLink == [op |-> "none", keg |-> NoKeg, kind |-> "none", conflicts |-> {},
           linked |-> FALSE]

\* Linker::new on a prefix nothing was put into.
AllWhole == [k \in MergeKegs |-> "whole"]
LinkIdle ==
    /\ pfile = [f \in LFiles |-> NoNode]
    /\ pdir = NoNode
    /\ popt = [n \in {k.name : k \in MergeKegs} |-> NoKeg]
    /\ llast = NoLink
    /\ kstate = AllWhole

\* Any prefix: other tools and earlier runs may have left files, links to any
\* keg and a directory or a directory symlink at share/man.
\* (Nothing is at the destinations only baz has, and baz is not linked.)
AnyPrefix ==
    /\ pfile \in [LFiles -> FileNodes]
    /\ \A f \in LFiles \ UNION {KegFiles(k) : k \in LinkKegs} : pfile[f] = NoNode
    /\ pdir \in DirNodes
    /\ \A f \in Nested : pdir # Plain("dir") => pfile[f] = NoNode
    /\ popt \in [{k.name : k \in MergeKegs} -> LinkKegs \cup {NoKeg}]
    /\ \A n \in DOMAIN popt : popt[n] # NoKeg => popt[n].name = n
    /\ llast = NoLink

LinkInit == AnyPrefix /\ kstate = AllWhole

\* A prefix that holds foreign files and links into bar, below a share/man
\* of any kind, and every keg whole.
MergeInit ==
    /\ pfile \in [LFiles -> {NoNode, Plain("file"), Link(Keg("bar", <<"1.0.0">>))}]
    /\ pdir \in DirNodes
    /\ \A f \in Nested : pdir # Plain("dir") => pfile[f] = NoNode
    /\ popt = [n \in {k.name : k \in MergeKegs} |-> NoKeg]
    /\ llast = NoLink
    /\ kstate = AllWhole

\* Any prefix, and a cellar in which kegs of foo and bar were removed or
\* hold dangling bin entries.
UnlinkInit ==
    /\ AnyPrefix
    /\ kstate \in [MergeKegs -> KegStates]
    /\ \A k \in MergeKegs \ LinkKegs : kstate[k] = "whole"

Prefix == [pfile |-> pfile, pdir |-> pdir, popt |-> popt]

\* check_conflicts that stops at the first conflict it meets.
check_conflicts_First(p, keg) ==
    LET taken(f) == p.pfile[f] # NoNode /\ ~same_target(p.pfile[f], keg, f)
        all == {f \in Entries(keg) :
                  IF f \in Nested
                  THEN CASE p.pdir.kind = "link" ->
                                f \in Entries(p.pdir.keg) /\ p.pdir.keg # keg
                         [] p.pdir.kind = "dir" -> taken(f)
                         [] OTHER -> FALSE
                  ELSE taken(f)}
               \cup (IF ManIsFile(keg) /\ p.pdir \notin {NoNode, Link(keg)}
                     THEN {"share/man"} ELSE {})
    IN  IF all = {} THEN {} ELSE {CHOOSE f \in all : TRUE}

\* check_conflicts with collect_conflicts and collect_conflicts_merged: a
\* destination conflicts when something is there that does not resolve to
\* the keg's own file. Below a directory symlink the entries of the old
\* target are looked at; below a missing directory (or a file) nothing is.
\* A keg's file at share/man conflicts with whatever else is at share/man.
check_conflicts(p, keg) ==
    LET taken(f) == p.pfile[f] # NoNode /\ ~same_target(p.pfile[f], keg, f)
    IN  {f \in Entries(keg) :
            IF f \in Nested
            THEN CASE p.pdir.kind = "link" ->
                          f \in Entries(p.pdir.keg) /\ p.pdir.keg # keg
                   [] p.pdir.kind = "dir" -> taken(f)
                   [] OTHER -> FALSE
            ELSE taken(f)}
        \cup (IF ManIsFile(keg) /\ p.pdir \notin {NoNode, Link(keg)}
              THEN {"share/man"} ELSE {})

\* Linker::link_opt: an opt link whose target resolves as the keg does stays,
\* anything else is replaced by a link to the keg.
linker_link_opt(p, keg) ==
    IF /\ p.popt[keg.name] # NoKeg
       /\ canonicalize_keg(p.popt[keg.name]) = canonicalize_keg(keg)
    THEN p
    ELSE [p EXCEPT !.popt[keg.name] = keg]

\* link_keg: check_conflicts, link_opt, then link_recursive over bin and
\* share. made are the files whose symlink call succeeds; the walk stops at
\* the first that fails. The keg's share/man is walked when it is a
\* directory or a symlink to one, and linked like a file when it is a file.
\* A symlink at share/man is replaced by a directory holding links to the
\* old target's files before the keg's share/man is walked; reading the old
\* target fails when it is not a directory.
linker_link_keg(p, keg, made) ==
    LET c == check_conflicts(p, keg)
        top == Entries(keg) \ Nested
        nest == IF src_is_dir(keg) THEN Entries(keg) \cap Nested ELSE {}
        put(q, fs, k) == [q EXCEPT !.pfile =
                             [f \in LFiles |-> IF f \in fs THEN Link(k) ELSE @[f]]]
        p1 == linker_link_opt(p, keg)
        p2 == IF ManIsFile(keg) /\ "share/man" \in made
              THEN [put(p1, top \cap made, keg) EXCEPT !.pdir = Link(keg)]
              ELSE put(p1, top \cap made, keg)
        p3 == IF p2.pdir.kind = "link"
              THEN put([p2 EXCEPT !.pdir = Plain("dir")],
                       Entries(p2.pdir.keg) \cap Nested, p2.pdir.keg)
              ELSE IF p2.pdir.kind = "none" THEN [p2 EXCEPT !.pdir = Plain("dir")]
              ELSE p2
        p4 == put(p3, nest \cap made, keg)
        fail(q) == [p |-> q, kind |-> "StoreCorruption", conflicts |-> {}]
    IN  IF c # {} THEN [p |-> p, kind |-> "LinkConflict", conflicts |-> c]
        ELSE IF ~(top \subseteq made) THEN fail(p2)
        ELSE IF ManIsFile(keg) /\ "share/man" \notin made THEN fail(p2)
        ELSE IF nest = {} THEN [p |-> p2, kind |-> "Ok", conflicts |-> {}]
        ELSE IF p2.pdir.kind = "link" /\ Entries(p2.pdir.keg) \cap Nested = {}
        THEN fail([p2 EXCEPT !.pdir = Plain("dir")])
        ELSE IF p2.pdir.kind = "file" THEN fail(p2)
        ELSE IF ~(nest \subseteq made) THEN fail(p4)
        ELSE [p |-> p4, kind |-> "Ok", conflicts |-> {}]

\* unlink_keg that leaves share/man in place when it is empty.
linker_unlink_keg_KeepsDirs(p, keg) ==
    LET walk(f) == f \notin Nested \/ p.pdir.kind = "dir"
        files == [f \in LFiles |->
                    IF f \in KegFiles(keg) /\ walk(f) /\ p.pfile[f] = Link(keg)
                    THEN NoNode ELSE p.pfile[f]]
    IN  [pfile |-> files,
         pdir |-> IF KegFiles(keg) \cap Nested # {} /\ p.pdir = Link(keg)
                  THEN NoNode ELSE p.pdir,
         popt |-> [p.popt EXCEPT ![keg.name] = IF @ = keg THEN NoKeg ELSE @]]

\* unlink_keg: unlink_opt, then unlink_recursive: remove the symlinks that
\* resolve to the keg's files, and share/man when it is left empty (or is a
\* symlink to the keg's own directory).
linker_unlink_keg(p, keg) ==
    LET nest == Entries(keg) \cap Nested
        walk(f) == f \notin Nested \/ p.pdir.kind = "dir"
        files == [f \in LFiles |->
                    IF f \in Entries(keg) /\ walk(f) /\ same_target(p.pfile[f], keg, f)
                    THEN NoNode ELSE p.pfile[f]]
    IN  [pfile |-> files,
         pdir |-> IF ManIsFile(keg) THEN IF p.pdir = Link(keg) THEN NoNode ELSE p.pdir
                  ELSE IF nest = {} THEN p.pdir
                  ELSE IF p.pdir.kind = "dir"
                  THEN IF \A f \in Nested : files[f] = NoNode THEN NoNode ELSE p.pdir
                  ELSE IF p.pdir = Link(keg) THEN NoNode
                  ELSE p.pdir,
         popt |-> [p.popt EXCEPT ![keg.name] =
                     IF @ # NoKeg /\ canonicalize_keg(@) = canonicalize_keg(keg)
                     THEN NoKeg ELSE @]]

\* is_linked: some entry of the keg's bin has a symlink in <prefix>/bin that
\* resolves to it.
is_linked(p, keg) ==
    \E f \in Entries(keg) \ Nested : same_target(p.pfile[f], keg, f)

LinkKeg(keg, made) ==
    /\ made \subseteq Destinations(keg)
    /\ LET r == linker_link_keg(Prefix, keg, made)
       IN  /\ pfile' = r.p.pfile
           /\ pdir' = r.p.pdir
           /\ popt' = r.p.popt
           /\ llast' = [op |-> "link", keg |-> keg, kind |-> r.kind,
                        conflicts |-> r.conflicts, linked |-> r.kind = "Ok"]
    /\ kstate' = kstate
    /\ LinkOnly

UnlinkKeg(keg) ==
    /\ LET q == linker_unlink_keg(Prefix, keg)
       IN  /\ pfile' = q.pfile
           /\ pdir' = q.pdir
           /\ popt' = q.popt
    /\ llast' = [op |-> "unlink", keg |-> keg, kind |-> "Ok", conflicts |-> {},
                 linked |-> llast.op = "link" /\ llast.linked /\ llast.keg = keg]
    /\ kstate' = kstate
    /\ LinkOnly

\* link_keg with no failing symlink call, and unlink_keg, of all four kegs.
NextMerge ==
    \/ \E keg \in MergeKegs : LinkKeg(keg, Destinations(keg))
    \/ \E keg \in MergeKegs : UnlinkKeg(keg)

\* unlink_keg alone, in a cellar where kegs may be damaged or gone.
NextUnlink == \E keg \in LinkKegs : UnlinkKeg(keg)

NextLink ==
    \/ \E keg \in LinkKegs, made \in SUBSET LFiles : LinkKeg(keg, made)
    \/ \E keg \in LinkKegs : UnlinkKeg(keg)

(***************************************************************************)
(*        PART 8: PATHS OF ARCHIVE ENTRIES (extraction/extract.rs)         *)
(***************************************************************************)

\* Bound: the number of '/'-separated segments of an entry path.
MaxSegs == 3

\* A path is its string split at '/': "/a" is <<"", "a">>, "a//b" is
\* <<"a", "", "b">>, "./a" is <<".", "a">>, "" is <<"">>.
EntryPaths == UNION {[1..k -> {"", ".", "..", "a"}] : k \in 1..MaxSegs}

\* Destination directories: /d, /d/../e, d, ../d and "."
Dests == {<<"", "d">>, <<"", "d", "..", "e">>, <<"d">>, <<"..", "d">>, <<".">>}

\* Path::is_absolute (Unix): the string starts with '/'.
is_absolute(path) == Len(path) > 1 /\ path[1] = ""

\* Path::components: RootDir ("/") for a leading '/', CurDir (".") only at
\* the start of a relative path, ParentDir (".."), Normal for the rest; empty
\* segments and other "." segments are dropped.
components(path) ==
    LET head == IF is_absolute(path) THEN <<"/">>
                ELSE IF path[1] = "" THEN <<>>
                ELSE <<path[1]>>
    IN  head \o SelectSeq(Tail(path), LAMBDA s : s \notin {"", "."})

\* Path::join of a relative path: the two strings with a '/' between.
join(base, path) == IF is_absolute(path) THEN path ELSE base \o path

\* The loop of normalize_path over the components cs, with the vector built
\* so far.
RECURSIVE normalize_from(_, _, _)
normalize_from(cs, built, absolute) ==
    IF cs = <<>> THEN built
    ELSE LET c == Head(cs)
             top == IF built = <<>> THEN "" ELSE built[Len(built)]
         IN  IF c = "/" THEN normalize_from(Tail(cs), Append(built, c), TRUE)
             ELSE IF c = "." THEN normalize_from(Tail(cs), built, absolute)
             ELSE IF c = ".."
             THEN IF built # <<>>
                  THEN IF top \notin {"/", ".."}
                       THEN normalize_from(Tail(cs), SubSeq(built, 1, Len(built) - 1),
                                           absolute)
                       ELSE IF top = "/" THEN normalize_from(Tail(cs), built, absolute)
                       ELSE normalize_from(Tail(cs), Append(built, c), absolute)
                  ELSE IF ~absolute THEN normalize_from(Tail(cs), Append(built, c), absolute)
                  ELSE normalize_from(Tail(cs), built, absolute)
             ELSE normalize_from(Tail(cs), Append(built, c), absolute)

\* normalize_path: the components of the path it returns.
normalize_path(path) == normalize_from(components(path), <<>>, FALSE)

\* Path::starts_with on component lists.
starts_with(cs, base) == Len(base) <= Len(cs) /\ SubSeq(cs, 1, Len(base)) = base

\* validate_path without the loop that rejects ParentDir components.
validate_path_Lexical(path, dest_dir) ==
    /\ ~is_absolute(path)
    /\ starts_with(normalize_path(join(dest_dir, path)), normalize_path(dest_dir))

\* validate_path: TRUE for Ok(()).
validate_path(path, dest_dir) ==
    /\ ~is_absolute(path)
    /\ \A i \in DOMAIN components(path) : components(path)[i] # ".."
    /\ starts_with(normalize_path(join(dest_dir, path)), normalize_path(dest_dir))

NoExtract == [kind |-> "none", written |-> <<"none">>]
NoWrite == <<"none">>

ExIdle ==
    /\ edest = <<".">>
    /\ epath = <<"">>
    /\ eres = NoExtract

ExInit ==
    /\ edest \in Dests
    /\ epath = <<"">>
    /\ eres = NoExtract

\* One entry of extract_tar_archive / extract_zip_archive: validate the
\* path, then unpack the entry at dest_dir joined with the path.
ExtractEntry(path) ==
    /\ eres = NoExtract
    /\ epath' = path
    /\ eres' = IF validate_path(path, edest)
               THEN [kind |-> "Ok", written |-> normalize_path(join(edest, path))]
               ELSE [kind |-> "StoreCorruption", written |-> NoWrite]
    /\ UNCHANGED edest
    /\ ExOnly

NextExtract == \E path \in EntryPaths : ExtractEntry(path)

(***************************************************************************)
(*   PART 9: STREAMED DOWNLOADS (download_streaming, its receive loop)     *)
(***************************************************************************)

\* The requests handed to download_streaming: one, at index 0 of the list.
StreamIndex == 0

StreamIdle ==
    /\ schan = <<>>
    /\ ssent = FALSE
    /\ shandled = <<>>
    /\ srx = "closed"

\* download_streaming has spawned its task and returned the receiver.
StreamInit ==
    /\ schan = <<>>
    /\ ssent = FALSE
    /\ shandled = <<>>
    /\ srx = "recv"

\* The spawned task sends what download_with_dedup returned, a success with
\* the request's index, and ends, which drops its sender.
StreamSend ==
    /\ cpc = "returned"
    /\ ~ssent
    /\ schan' = Append(schan, [ok |-> cres # "err", index |-> StreamIndex])
    /\ ssent' = TRUE
    /\ UNCHANGED <<shandled, srx>>
    /\ StreamOnly

\* rx.recv() yields the oldest message and the loop body handles it.
StreamRecv ==
    /\ srx = "recv"
    /\ schan # <<>>
    /\ shandled' = Append(shandled, Head(schan))
    /\ schan' = Tail(schan)
    /\ UNCHANGED <<ssent, srx>>
    /\ StreamOnly

\* Every sender is dropped and the channel is empty: rx.recv() yields None
\* and the loop ends.
StreamClose ==
    /\ srx = "recv"
    /\ schan = <<>>
    /\ ssent
    /\ srx' = "closed"
    /\ UNCHANGED <<schan, ssent, shandled>>
    /\ StreamOnly

NextStreaming ==
    \/ DownloadAcquire
    \/ \E b \in BOOLEAN : HeadProbe(b)
    \/ \E a \in {"partial", "full", "err"} : ProbeDone(a)
    \/ \E i \in ChunkIds : ChunkAcquire(i)
    \/ \E i \in ChunkIds, a \in {"ok", "retryable", "fatal"} : ChunkResponse(i, a)
    \/ \E i \in ChunkIds : ChunkRetry(i)
    \/ ChunksEnd
    \/ DownloadReturn
    \/ StreamSend
    \/ StreamRecv
    \/ StreamClose

(***************************************************************************)
(*     PART 10: THE CALLS OF extract_with_retry (installer/install.rs)     *)
(***************************************************************************)

\* What ensure_entry can return: the entry, StoreCorruption, or another error.
EnsureOutcomes == {"Ok", "StoreCorruption", "Other"}

NoRetry == [calls |-> <<>>, result |-> "none"]

RetryIdle ==
    /\ xens = <<>>
    /\ xdls = <<>>
    /\ xres = NoRetry

\* A download result has arrived; the store and the server will answer the
\* calls to come as xens and xdls say.
RetryInit ==
    /\ xens \in [1..MAX_CORRUPTION_RETRIES -> EnsureOutcomes]
    /\ xdls \in [1..(MAX_CORRUPTION_RETRIES - 1) -> BOOLEAN]
    /\ xres = NoRetry

\* The loop with every error of ensure_entry taken for a corrupted blob.
RECURSIVE extract_attempts_RetryAny(_, _, _, _)
extract_attempts_RetryAny(attempt, ens, dls, calls) ==
    IF attempt >= MAX_CORRUPTION_RETRIES
    THEN [calls |-> calls, result |-> "StoreCorruption"]
    ELSE LET c1 == Append(calls, "ensure_entry")
             c2 == Append(c1, "remove_blob")
             c3 == Append(c2, "download_single")
         IN  IF ens[attempt + 1] = "Ok" THEN [calls |-> c1, result |-> "Ok"]
             ELSE IF attempt + 1 < MAX_CORRUPTION_RETRIES
                  THEN IF dls[attempt + 1]
                       THEN extract_attempts_RetryAny(attempt + 1, ens, dls, c3)
                       ELSE [calls |-> c3, result |-> "NetworkFailure"]
                  ELSE extract_attempts_RetryAny(attempt + 1, ens, dls, c2)

\* The for loop of extract_with_retry from the given attempt on (attempts
\* count from 0), and the Err(last_error) that follows it.
RECURSIVE extract_attempts(_, _, _, _)
extract_attempts(attempt, ens, dls, calls) ==
    IF attempt >= MAX_CORRUPTION_RETRIES
    THEN [calls |-> calls, result |-> "StoreCorruption"]
    ELSE LET c1 == Append(calls, "ensure_entry")
             c2 == Append(c1, "remove_blob")
             c3 == Append(c2, "download_single")
         IN  IF ens[attempt + 1] = "Ok" THEN [calls |-> c1, result |-> "Ok"]
             ELSE IF ens[attempt + 1] = "StoreCorruption"
             THEN IF attempt + 1 < MAX_CORRUPTION_RETRIES
                  THEN IF dls[attempt + 1]
                       THEN extract_attempts(attempt + 1, ens, dls, c3)
                       ELSE [calls |-> c3, result |-> "NetworkFailure"]
                  ELSE extract_attempts(attempt + 1, ens, dls, c2)
             ELSE [calls |-> c1, result |-> "Other"]

\* Installer::extract_with_retry runs to its return.
ExtractWithRetry ==
    /\ xres = NoRetry
    /\ xres' = extract_attempts(0, xens, xdls, <<>>)
    /\ UNCHANGED <<xens, xdls>>
    /\ RetryOnly

NextRetry == ExtractWithRetry

(***************************************************************************)
(*   PART 11: ONE REQUEST WITH REGISTRY AUTH (network/download/mod.rs)     *)
(***************************************************************************)

\* Tokens are numbered in the order the realm issues them; 0 is no token.
NoToken == [token |-> 0, fresh |-> FALSE]
Statuses == {"ok", "401", "5xx", "4xx", "neterr"}

ReqIdle ==
    /\ qpc = "done"
    /\ qattempt = 0
    /\ sent = <<>>
    /\ token_cache = NoToken
    /\ token_requests = 0
    /\ qres = "none"

\* A call starts with no token cached or with the first token cached by an
\* earlier request of the same scope.
ReqInitWith(pcs) ==
    /\ qpc \in pcs
    /\ qattempt = 0
    /\ sent = <<>>
    /\ token_requests \in {0, 1}
    /\ token_cache = IF token_requests = 0 THEN NoToken
                     ELSE [token |-> 1, fresh |-> TRUE]
    /\ qres = "none"

ReqInit == ReqInitWith({"c_send", "f_send"})
ReqInitChunk == ReqInitWith({"c_send"})

\* get_cached_token_for_url_internal: the token of the scope if unexpired.
get_cached_token(cache) == IF cache.fresh THEN cache.token ELSE 0

\* fetch_bearer_token_internal answering with a token of the realm always.
fetch_bearer_token_Always(cache, requests, realm_ok) ==
    IF realm_ok
    THEN [ok |-> TRUE, token |-> requests + 1, requests |-> requests + 1,
          cache |-> [token |-> requests + 1, fresh |-> TRUE]]
    ELSE [ok |-> FALSE, token |-> 0, requests |-> requests + 1, cache |-> cache]

\* fetch_bearer_token_internal: an unexpired cached token of the scope is
\* returned as it is; otherwise the realm is asked and its token cached.
fetch_bearer_token(cache, requests, realm_ok) ==
    IF cache.fresh
    THEN [ok |-> TRUE, token |-> cache.token, requests |-> requests, cache |-> cache]
    ELSE IF realm_ok
    THEN [ok |-> TRUE, token |-> requests + 1, requests |-> requests + 1,
          cache |-> [token |-> requests + 1, fresh |-> TRUE]]
    ELSE [ok |-> FALSE, token |-> 0, requests |-> requests + 1, cache |-> cache]

Request(token) == [token |-> token, status |-> "pending", slept |-> 0]
Answered(status, ms) ==
    [sent EXCEPT ![Len(sent)].status = status, ![Len(sent)].slept = ms]

\* The backoff without its doubling.
backoff_Flat(n) == 100

\* Duration::from_millis(100 * (1 << attempt))
backoff(n) == 100 * 2^n

\* The cached token's expires_at passes.
TokenExpires ==
    /\ qpc # "done"
    /\ token_cache.fresh
    /\ token_cache' = [token_cache EXCEPT !.fresh = FALSE]
    /\ UNCHANGED <<qpc, qattempt, sent, token_requests, qres>>
    /\ ReqOnly

\* download_chunk, top of the loop: the range request goes out with the
\* cached token, if there is one.
ChunkSend ==
    /\ qpc = "c_send"
    /\ sent' = Append(sent, Request(get_cached_token(token_cache)))
    /\ qpc' = "c_answer"
    /\ UNCHANGED <<qattempt, token_cache, token_requests, qres>>
    /\ ReqOnly

\* `continue`: the next attempt, or the end of the loop with last_error.
Continue ==
    IF qattempt < MAX_CHUNK_RETRIES
    THEN qattempt' = qattempt + 1 /\ qpc' = "c_send" /\ UNCHANGED qres
    ELSE qres' = "NetworkFailure" /\ qpc' = "done" /\ UNCHANGED qattempt

Returns(r) == qres' = r /\ qpc' = "done" /\ UNCHANGED qattempt

\* download_chunk, the rest of one turn of the loop: the answer arrives.  A
\* 401 with a challenge asks for a token and continues at once; a 5xx or a
\* network error sleeps the backoff and continues while attempts remain;
\* anything else returns. The data of a 2xx may have the wrong length.
ChunkAnswer(status, challenge, realm_ok, whole) ==
    /\ qpc = "c_answer"
    /\ status # "401" => challenge
    /\ (status # "401" \/ ~challenge \/ token_cache.fresh) => realm_ok
    /\ status # "ok" => whole
    /\ LET fb == fetch_bearer_token(token_cache, token_requests, realm_ok)
           retry == status \in {"5xx", "neterr"} /\ qattempt < MAX_CHUNK_RETRIES
       IN  /\ sent' = Answered(status, IF retry THEN backoff(qattempt) ELSE 0)
           /\ CASE status = "401" /\ challenge ->
                      /\ token_cache' = fb.cache
                      /\ token_requests' = fb.requests
                      /\ IF fb.ok THEN Continue ELSE Returns("NetworkFailure")
                [] status = "401" /\ ~challenge ->
                      /\ Returns("NetworkFailure")
                      /\ UNCHANGED <<token_cache, token_requests>>
                [] status \in {"5xx", "neterr"} ->
                      /\ Continue
                      /\ UNCHANGED <<token_cache, token_requests>>
                [] status = "4xx" ->
                      /\ Returns("NetworkFailure")
                      /\ UNCHANGED <<token_cache, token_requests>>
                [] OTHER ->
                      /\ Returns(IF whole THEN "ok" ELSE "NetworkFailure")
                      /\ UNCHANGED <<token_cache, token_requests>>
    /\ ReqOnly

\* fetch_download_response_internal and fetch_range_response_internal: the
\* request goes out with the cached token, if there is one.
FetchSend ==
    /\ qpc = "f_send"
    /\ sent' = Append(sent, Request(get_cached_token(token_cache)))
    /\ qpc' = "f_answer"
    /\ UNCHANGED <<qattempt, token_cache, token_requests, qres>>
    /\ ReqOnly

\* The answer arrives; on a 401 handle_auth_challenge_internal asks for a
\* token and sends the request again with it.
FetchAnswer(status, challenge, realm_ok) ==
    /\ qpc = "f_answer"
    /\ status # "401" => challenge
    /\ (status # "401" \/ ~challenge \/ token_cache.fresh) => realm_ok
    /\ LET fb == fetch_bearer_token(token_cache, token_requests, realm_ok)
       IN  CASE status = "401" /\ challenge ->
                    /\ token_cache' = fb.cache
                    /\ token_requests' = fb.requests
                    /\ IF fb.ok
                       THEN /\ sent' = Append(Answered(status, 0), Request(fb.token))
                            /\ qpc' = "f_again"
                            /\ UNCHANGED qres
                       ELSE /\ sent' = Answered(status, 0)
                            /\ qres' = "NetworkFailure" /\ qpc' = "done"
             [] OTHER ->
                    /\ sent' = Answered(status, 0)
                    /\ qres' = IF status = "ok" THEN "ok" ELSE "NetworkFailure"
                    /\ qpc' = "done"
                    /\ UNCHANGED <<token_cache, token_requests>>
    /\ UNCHANGED qattempt
    /\ ReqOnly

\* The answer to the request sent again: a second 401 is an error.
FetchAgainAnswer(status) ==
    /\ qpc = "f_again"
    /\ sent' = Answered(status, 0)
    /\ qres' = IF status = "ok" THEN "ok" ELSE "NetworkFailure"
    /\ qpc' = "done"
    /\ UNCHANGED <<qattempt, token_cache, token_requests>>
    /\ ReqOnly

NextAuth ==
    \/ TokenExpires
    \/ ChunkSend
    \/ \E s \in Statuses, c, k, w \in BOOLEAN : ChunkAnswer(s, c, k, w)
    \/ FetchSend
    \/ \E s \in Statuses, c, k \in BOOLEAN : FetchAnswer(s, c, k)
    \/ \E s \in Statuses : FetchAgainAnswer(s)

\* ---- a chunked download whose first chunk task is followed request by
\* request ----
\* A body of two ranges of one byte each.
BlobInitTwo ==
    /\ BlobInit
    /\ payload \in [1..2 -> [1..1 -> Bytes]]

\* The task of the first chunk runs download_chunk once it is spawned.
TaskSend == wpc = "recv" /\ chandles[1] = "run" /\ ChunkSend
TaskAnswer(status, challenge, realm_ok, whole) ==
    /\ wpc = "recv" /\ chandles[1] = "run"
    /\ ChunkAnswer(status, challenge, realm_ok, whole)
TaskTokenExpires == wpc = "recv" /\ chandles[1] = "run" /\ TokenExpires

\* chunk_tx.send after download_chunk returned Ok; `?` after it returned Err.
TaskDelivers(fail) == qres = "ok" /\ ChunkArrives(1, fail)
TaskFails == qres = "NetworkFailure" /\ ChunkTaskFails(1)

NextChunkFetch ==
    \/ \E ok \in BOOLEAN : ChunkedStart(ok)
    \/ TaskTokenExpires
    \/ TaskSend
    \/ \E s \in Statuses, c, k, w \in BOOLEAN : TaskAnswer(s, c, k, w)
    \/ \E fail \in BOOLEAN : TaskDelivers(fail)
    \/ TaskFails
    \/ \E fail \in BOOLEAN : ChunkArrives(2, fail)
    \/ ChunkTaskFails(2)
    \/ ChunksJoined
    \/ \E ok \in BOOLEAN : Flush(ok)
    \/ \E ok \in BOOLEAN : Commit(ok)

(***************************************************************************)
(*                             SPECIFICATIONS                              *)
(***************************************************************************)

vars == <<storeVars, instVars, dlVars, chunkVars, blobVars, resVars, lnVars, exVars, strVars, retryVars, reqVars>>

\* Concurrent ensure_entry and has_entry calls, no faults besides a bad archive.
InitEnsure == StoreInit /\ InstIdle /\ DlIdle /\ ChunkIdle /\ BlobIdle /\ ResIdle /\ LinkIdle /\ ExIdle /\ StreamIdle /\ RetryIdle /\ ReqIdle

NextEnsure ==
    \E t \in Tasks : EnsureStep(t) \/ HasEntry(t)

SpecEnsure == InitEnsure /\ [][NextEnsure]_vars

\* The store with every operation, failing renames and crashing processes.
NextStore ==
    \/ \E t \in Tasks : EnsureStep(t) \/ RemoveStep(t) \/ HasEntry(t) \/ RenameFault(t)
    \/ \E p \in Pids : Crash(p)

SpecStore == InitEnsure /\ [][NextStore]_vars

\* The installer: execute, uninstall and gc calls, one after the other, with
\* every step of each free to fail.
InitInstall == StoreIdle /\ InstInit /\ DlIdle /\ ChunkIdle /\ BlobIdle /\ ResIdle /\ LinkIdle /\ ExIdle /\ StreamIdle /\ RetryIdle /\ ReqIdle

SpecInstall == InitInstall /\ [][NextInstall]_vars
InitKegOnly == StoreIdle /\ InstInitKegOnly /\ DlIdle /\ ChunkIdle /\ BlobIdle /\ ResIdle /\ LinkIdle /\ ExIdle /\ StreamIdle /\ RetryIdle /\ ReqIdle
SpecKegOnly == InitKegOnly /\ [][NextKegOnly]_vars

InitDownload == StoreIdle /\ InstIdle /\ DlInit /\ ChunkIdle /\ BlobIdle /\ ResIdle /\ LinkIdle /\ ExIdle /\ StreamIdle /\ RetryIdle /\ ReqIdle
SpecDownload == InitDownload /\ [][NextDownload]_vars
\* The downloader as it is constructed: one permit and an empty cache.
InitDedup == StoreIdle /\ InstIdle /\ DlIdle /\ ChunkIdle /\ BlobIdle /\ ResIdle /\ LinkIdle /\ ExIdle /\ StreamIdle /\ RetryIdle /\ ReqIdle
SpecDedup == InitDedup /\ [][NextDedup]_vars

InitChunked == StoreIdle /\ InstIdle /\ DlIdle /\ ChunkInit /\ BlobIdle /\ ResIdle /\ LinkIdle /\ ExIdle /\ StreamIdle /\ RetryIdle /\ ReqIdle
SpecChunked == InitChunked /\ [][NextChunked]_vars

InitRanges == StoreIdle /\ InstIdle /\ DlIdle /\ RangesInit /\ BlobIdle /\ ResIdle /\ LinkIdle /\ ExIdle /\ StreamIdle /\ RetryIdle /\ ReqIdle
SpecRanges == InitRanges /\ [][NextRanges]_vars

\* One download of the parallel downloader whose chunk tasks draw on the
\* semaphore the download itself holds a permit of.
InitShared == StoreIdle /\ InstIdle /\ DlIdle /\ ChunkInitShared /\ BlobIdle /\ ResIdle /\ LinkIdle /\ ExIdle /\ StreamIdle /\ RetryIdle /\ ReqIdle
SpecShared == InitShared /\ [][NextShared]_vars

InitBlob == StoreIdle /\ InstIdle /\ DlIdle /\ ChunkIdle /\ BlobInit /\ ResIdle /\ LinkIdle /\ ExIdle /\ StreamIdle /\ RetryIdle /\ ReqIdle
SpecBlob == InitBlob /\ [][NextBlob]_vars
SpecCache == InitBlob /\ [][NextCache]_vars

InitResolve == StoreIdle /\ InstIdle /\ DlIdle /\ ChunkIdle /\ BlobIdle /\ ResInit /\ LinkIdle /\ ExIdle /\ StreamIdle /\ RetryIdle /\ ReqIdle
SpecResolve == InitResolve /\ [][NextResolve]_vars
SpecFetch == InitResolve /\ [][NextFetch]_vars

InitLink == StoreIdle /\ InstIdle /\ DlIdle /\ ChunkIdle /\ BlobIdle /\ ResIdle /\ LinkInit /\ ExIdle /\ StreamIdle /\ RetryIdle /\ ReqIdle
SpecLink == InitLink /\ [][NextLink]_vars
InitMerge == StoreIdle /\ InstIdle /\ DlIdle /\ ChunkIdle /\ BlobIdle /\ ResIdle /\ MergeInit /\ ExIdle /\ StreamIdle /\ RetryIdle /\ ReqIdle
SpecMerge == InitMerge /\ [][NextMerge]_vars
InitUnlink == StoreIdle /\ InstIdle /\ DlIdle /\ ChunkIdle /\ BlobIdle /\ ResIdle /\ UnlinkInit /\ ExIdle /\ StreamIdle /\ RetryIdle /\ ReqIdle
SpecUnlink == InitUnlink /\ [][NextUnlink]_vars

InitExtract == StoreIdle /\ InstIdle /\ DlIdle /\ ChunkIdle /\ BlobIdle /\ ResIdle /\ LinkIdle /\ ExInit /\ StreamIdle /\ RetryIdle /\ ReqIdle
SpecExtract == InitExtract /\ [][NextExtract]_vars

\* download_streaming with one request, and the loop that receives from it.
InitStreaming == StoreIdle /\ InstIdle /\ DlIdle /\ ChunkInitShared /\ BlobIdle /\ ResIdle /\ LinkIdle /\ ExIdle /\ StreamInit /\ RetryIdle /\ ReqIdle
SpecStreaming == InitStreaming /\ [][NextStreaming]_vars

InitRetry == StoreIdle /\ InstIdle /\ DlIdle /\ ChunkIdle /\ BlobIdle /\ ResIdle /\ LinkIdle /\ ExIdle /\ StreamIdle /\ RetryInit /\ ReqIdle
SpecRetry == InitRetry /\ [][NextRetry]_vars

InitAuth == StoreIdle /\ InstIdle /\ DlIdle /\ ChunkIdle /\ BlobIdle /\ ResIdle /\ LinkIdle /\ ExIdle /\ StreamIdle /\ RetryIdle /\ ReqInit
SpecAuth == InitAuth /\ [][NextAuth]_vars

InitChunkFetch == StoreIdle /\ InstIdle /\ DlIdle /\ ChunkIdle /\ BlobInitTwo /\ ResIdle /\ LinkIdle /\ ExIdle /\ StreamIdle /\ RetryIdle /\ ReqInitChunk
SpecChunkFetch == InitChunkFetch /\ [][NextChunkFetch]_vars

(***************************************************************************)
(*                         CLAIMS ABOUT THE STORE                          *)
(***************************************************************************)

Returned(t) == pc[t] = "idle" /\ result[t] # NoResult

\* C1: for an absent entry and a valid archive, concurrent ensure_entry calls
\* extract exactly once, every call returns Ok(store/<key>), the directory is
\* complete whenever a call has returned, and a later call returns the same
\* path without extracting again.
C1_SingleExtraction ==
    badAt = 0 =>
        /\ unpackCount <= 1
        /\ entry.ex => (Complete(entry) /\ unpackCount = 1)
        /\ \A t \in Tasks :
              Returned(t) => /\ result[t] = OkResult(EntryPath(StoreKey))
                             /\ Complete(entry)
                             /\ unpackCount = 1

\* A waiter that passed the fast path while the entry was absent now holds the
\* lock and finds the entry another task has completed and returned.
C1_Witness ==
    /\ badAt = 0
    /\ \E t1, t2 \in Tasks :
          /\ PidOf(t1) # PidOf(t2)
          /\ pc[t1] = "e_check"
          /\ Returned(t2)
          /\ result[t2].ok
          /\ Complete(entry)
          /\ unpackCount = 1

\* C2: store/<key> is absent or complete in every state, and no exists() check
\* made by ensure_entry or has_entry answers true for a partial directory.
C2_AbsentOrComplete ==
    /\ entry.ex => Complete(entry)
    /\ ~seenPartial

\* The positions of ensure_entry and remove_entry between lock_exclusive
\* returning and the lock file being dropped.
InCritical(t) == pc[t] \in {"e_check", "e_mktmp", "e_extract", "r_check", "r_rm", "r_unlink"}

\* C21: no two tasks are inside the locked sections of ensure_entry or
\* remove_entry for the key at the same time, and at most one task is
\* extracting.
C21_CriticalSectionsExclusive ==
    /\ \A t1, t2 \in Tasks : (InCritical(t1) /\ InCritical(t2)) => t1 = t2
    /\ Cardinality({t \in Tasks : pc[t] = "e_extract"}) <= 1

\* A temp directory of the key that no running call is extracting into.
Stale(p) == tmp[p].ex /\ \A t \in Tasks : PidOf(t) = p => pc[t] # "e_extract"

\* C22: when an ensure_entry call that extracted returns Ok, no temp
\* directory left behind by a crashed process remains for the key.
C22_StaleTmpPurged ==
    [][ \A t \in Tasks :
          (pc[t] = "e_extract" /\ pc'[t] = "idle" /\ result'[t].ok) =>
              \A p \in Pids : ~Stale(p)'
      ]_vars

(***************************************************************************)
(*                       CLAIMS ABOUT THE INSTALLER                        *)
(***************************************************************************)

\* C3: once an item's record_install has committed, no later failure of
\* another item of the same execute removes its row or its keg; an execute in
\* which an item failed returns an error; and an item that started from
\* nothing and failed leaves no keg and no row.
C3_EarlierSuccessesStay ==
    [][ /\ (ipc = "exec" /\ pending' # pending) =>
              LET n == CHOOSE x \in pending \ pending' : TRUE
              IN  /\ \A m \in committedNow :
                        /\ installed_kegs'[m] # NoRow
                        /\ KegOf(m) \in kegs'
                  /\ last'.fail # "none" => error' # NoError
                  /\ (last'.fail # "none" /\ Fresh(n)) =>
                        /\ installed_kegs'[n] = NoRow
                        /\ KegOf(n) \notin kegs'
        /\ (ipc = "exec" /\ ipc' = "idle" /\ error # NoError) => iresult' = "err"
      ]_vars

\* C4: between installer calls, whatever calls came before and however they
\* failed, every installed_keg row has its keg directory and every
\* linked_file row has its symlink.
C4_MetadataMatchesDisk ==
    ipc = "idle" =>
        /\ \A n \in InstallNames :
              installed_kegs[n] # NoRow =>
                  Keg(formula_token(n), installed_kegs[n].version) \in kegs
        /\ \A r \in linked_files : overlay[r.link] # NoKeg

\* C5: the refcount of every store key equals the number of installed_keg
\* rows that reference the key (no store_refs row counts as 0).
C5_RefcountLaw ==
    \A k \in StoreKeys :
        (IF store_refs[k] = -1 THEN 0 ELSE store_refs[k])
            = Cardinality({n \in InstallNames : installed_kegs[n].key = k})

\* C10: when opening the transaction, record_install or commit fails for an
\* item after its keg was materialized, then when execute returns it returns
\* an error, the item's keg directory, opt link and overlay links are absent,
\* there is no installed_keg row for it, and its store entry and blob remain.
\* (Stated for the item processed last, where no other item of the same
\* execute has installed the same keg.)
C10_DbFailureRollsBack ==
    ( /\ ipc = "exec"
      /\ pending = {}
      /\ last.fail \in DbPhases
      /\ \A m \in committedNow : KegOf(m) # KegOf(last.name) ) =>
        LET n == last.name
            keg == KegOf(n)
        IN  /\ error # NoError
            /\ keg \notin kegs
            /\ opt[keg.name] = NoKeg
            /\ \A l \in BinFiles(keg.name) : overlay[l] # keg
            /\ installed_kegs[n] = NoRow
            /\ Formula(n).sha256 \in storeDirs
            /\ Formula(n).sha256 \in blobFiles


\* C11: when linking was requested and the link step of an item failed, then
\* once the item is processed its keg directory is gone, no opt link and no
\* overlay symlink resolves into the keg, and execute holds the error.
C11_LinkFailureCleansUp ==
    (ipc = "exec" /\ last.fail = "link") =>
        LET keg == KegOf(last.name)
        IN  /\ error # NoError
            /\ keg \notin kegs
            /\ opt[keg.name] # keg
            /\ \A l \in LinkPaths : overlay[l] # keg

\* C12: while execute processes its items an error once recorded is not
\* replaced by a later one, and the error execute returns is the one it
\* holds: execute returns the first error recorded, after all items.
C12_FirstErrorReturned ==
    [][ /\ (ipc = "exec" /\ ipc' = "exec" /\ error # NoError) => error' = error
        /\ (ipc = "exec" /\ ipc' = "idle") =>
              (pending = {} /\ returned' = error
                  /\ iresult' = IF error # NoError THEN "err" ELSE "ok")
      ]_vars

\* C13: a gc that succeeds removes exactly the store entries and store_refs
\* rows of the keys whose refcount is 0; no gc removes a store entry that an
\* installed_keg row references; and when an uninstall has removed the last
\* row that references a key, the key's store entry is still there and its
\* refcount is 0.
C13_GcRemovesUnreferenced ==
    [][ (ipc = "idle" /\ ipc' = "idle") =>
          /\ (storeDirs' # storeDirs \/ store_refs' # store_refs) /\ installed_kegs' = installed_kegs =>
                /\ \A k \in storeDirs \ storeDirs' :
                      /\ store_refs[k] = 0
                      /\ \A n \in InstallNames : installed_kegs[n].key # k
                /\ iresult' = "ok" =>
                      /\ storeDirs' = storeDirs \ {k \in StoreKeys : store_refs[k] = 0}
                      /\ store_refs' = [k \in StoreKeys |->
                                          IF store_refs[k] = 0 THEN -1 ELSE store_refs[k]]
          /\ \A n \in InstallNames :
                ( /\ installed_kegs[n] # NoRow /\ installed_kegs'[n] = NoRow
                  /\ \A m \in InstallNames :
                        installed_kegs'[m].key # installed_kegs[n].key ) =>
                    /\ store_refs'[installed_kegs[n].key] = 0
                    /\ installed_kegs[n].key \in storeDirs =>
                          installed_kegs[n].key \in storeDirs'
      ]_vars

\* C14: a successful install of one formula followed by a successful
\* uninstall and gc leaves nothing of it (keg directory, overlay links, opt
\* link, rows, blob, store entry), and no step of the sequence changes the
\* row, keg, links, blob or store entry of another installed formula.
C14_RoundTrip ==
    [][ trip' # NoTrip =>
          LET n == trip'.name
              keg == KegOf(n)
          IN  /\ trip'.stage = "collected" =>
                    /\ keg \notin kegs'
                    /\ \A l \in LinkPaths : overlay'[l] # keg
                    /\ opt'[keg.name] # keg
                    /\ installed_kegs'[n] = NoRow
                    /\ \A r \in linked_files' : r.name # n
                    /\ Formula(n).sha256 \notin blobFiles'
                    /\ Formula(n).sha256 \notin storeDirs'
              /\ \A m \in InstallNames \ {n} :
                    installed_kegs[m] # NoRow =>
                        LET other == Keg(formula_token(m), installed_kegs[m].version)
                        IN  /\ installed_kegs'[m] = installed_kegs[m]
                            /\ other \in kegs => other \in kegs'
                            /\ \A l \in LinkPaths :
                                  overlay[l] = other => overlay'[l] = other
                            /\ opt[other.name] = other => opt'[other.name] = other
                            /\ {r \in linked_files' : r.name = m}
                                  = {r \in linked_files : r.name = m}
                            /\ installed_kegs[m].key \in blobFiles =>
                                  installed_kegs[m].key \in blobFiles'
                            /\ installed_kegs[m].key \in storeDirs =>
                                  installed_kegs[m].key \in storeDirs'
      ]_vars

\* C15: an uninstall of a name that has no installed_keg row under exactly
\* that name fails with NotInstalled and changes nothing in the cellar, the
\* prefix, the store or the database.
C15_NotInstalledChangesNothing ==
    [][ ( /\ ipc = "idle" /\ ipc' = "idle" /\ last' # NoItem
          /\ installed_kegs[last'.name] = NoRow ) =>
            /\ last'.fail = "NotInstalled"
            /\ iresult' = "err"
            /\ UNCHANGED <<kegs, opt, overlay, installed_kegs, linked_files,
                           store_refs, storeDirs, blobFiles>>
      ]_vars

\* The tap reference hashicorp/tap/terraform was uninstalled while only the
\* core formula terraform, whose keg has the same name, was installed and
\* linked: the call failed with NotInstalled and terraform is still there.
C15_Witness ==
    /\ ipc = "idle"
    /\ last.name = <<"hashicorp", "tap", "terraform">> /\ last.fail = "NotInstalled"
    /\ installed_kegs[<<"terraform">>] # NoRow
    /\ KegOf(<<"terraform">>) \in kegs
    /\ overlay["bin/terraform"] = KegOf(<<"terraform">>)

AttemptCalls(i) ==
    <<"ensure_entry">>
        \o (IF xens[i] = "StoreCorruption" THEN <<"remove_blob">> ELSE <<>>)
        \o (IF xens[i] = "StoreCorruption" /\ i < MAX_CORRUPTION_RETRIES
            THEN <<"download_single">> ELSE <<>>)

\* C25: extract_with_retry calls ensure_entry n times, 1 <= n <= 3, and
\* download_single at most twice; every attempt before the last returned
\* StoreCorruption, had its blob removed and was downloaded again with
\* success; the last attempt's Ok or other error is returned as it is, a
\* failed re-download is returned at once, and the third StoreCorruption is
\* returned after the blob is removed.
C25_RetryOnCorruptionOnly ==
    xres # NoRetry =>
        LET n == Len(SelectSeq(xres.calls, LAMBDA c : c = "ensure_entry"))
            d == Len(SelectSeq(xres.calls, LAMBDA c : c = "download_single"))
        IN  /\ n \in 1..MAX_CORRUPTION_RETRIES
            /\ d <= MAX_CORRUPTION_RETRIES - 1
            /\ \A i \in 1..(n - 1) : xens[i] = "StoreCorruption" /\ xdls[i]
            /\ xres.calls = IF n = 1 THEN AttemptCalls(1)
                            ELSE IF n = 2 THEN AttemptCalls(1) \o AttemptCalls(2)
                            ELSE AttemptCalls(1) \o AttemptCalls(2) \o AttemptCalls(3)
            /\ xres.result =
                  IF xens[n] # "StoreCorruption" THEN xens[n]
                  ELSE IF n = MAX_CORRUPTION_RETRIES THEN "StoreCorruption"
                  ELSE "NetworkFailure"
            /\ (xens[n] = "StoreCorruption" /\ n < MAX_CORRUPTION_RETRIES) => ~xdls[n]

\* Three corrupted extractions with two successful re-downloads between them.
C25_Witness ==
    /\ xens = <<"StoreCorruption", "StoreCorruption", "StoreCorruption">>
    /\ xdls = <<TRUE, TRUE>>
    /\ xres.result = "StoreCorruption"
    /\ Len(xres.calls) = 8

InMapDeps(n) ==
    IF n \in DOMAIN rformulas
    THEN {rformulas[n][i] : i \in DOMAIN rformulas[n]} \cap DOMAIN rformulas
    ELSE {}

\* The closure of the roots: the least set of names that holds the roots and,
\* with a name, its dependencies that are in the map.
Closure ==
    LET Closed(S) == /\ \A i \in DOMAIN rroots : rroots[i] \in S
                     /\ \A n \in S : InMapDeps(n) \subseteq S
    IN  CHOOSE S \in SUBSET Names :
            Closed(S) /\ \A T \in SUBSET Names : Closed(T) => S \subseteq T

\* The members of closure cl that lie on a cycle of the dependency relation.
OnCycle(cl) ==
    LET deps == [n \in cl |-> InMapDeps(n)]
        RECURSIVE Reach(_, _)
        Reach(S, k) == IF k = 0 THEN S
                       ELSE Reach(S \cup UNION {deps[m] : m \in S}, k - 1)
    IN  {n \in cl : n \in Reach(deps[n], Cardinality(cl))}

\* C16: when resolve_closure succeeds its output has no duplicates, is a
\* permutation of the closure of the roots, and every in-map dependency of
\* every node stands earlier in the output than the node.
C16_TopologicalOrder ==
    rresult.kind = "Ok" =>
        LET ordered == rresult.ordered
        IN  /\ \A i, j \in DOMAIN ordered : ordered[i] = ordered[j] => i = j
            /\ {ordered[i] : i \in DOMAIN ordered} = Closure
            /\ \A i \in DOMAIN ordered : \A d \in InMapDeps(ordered[i]) :
                   \E j \in 1..(i - 1) : ordered[j] = d

\* git-like case: root 3 depends on 2 and 1, 2 depends on 1, and 1 has no
\* formula in the map; 1 was skipped and 2 was put before 3.
C16_Witness ==
    /\ rroots = <<3>>
    /\ DOMAIN rformulas = {2, 3}
    /\ rformulas[3] = <<2, 1>>
    /\ rformulas[2] = <<1>>
    /\ rresult = [kind |-> "Ok", ordered |-> <<2, 3>>]

\* C17 as stated: when the dependency relation on the closure of the roots
\* has a cycle, resolve_closure fails with DependencyCycle, and the names it
\* carries are exactly the closure members it could not order, among them
\* every member of a cycle.
C17_CycleReported ==
    rresult # NoResolve =>
        LET cl == Closure
            cyc == OnCycle(cl)
        IN  cyc # {} =>
                /\ rresult.kind = "DependencyCycle"
                /\ rresult.cycle = cl \ {rresult.ordered[i] : i \in DOMAIN rresult.ordered}
                /\ cyc \subseteq rresult.cycle

\* C17 amended: the same, when every root has a formula in the map (a root
\* without one makes resolve_closure fail with MissingFormula before any
\* cycle is looked for).
C17_CycleReportedWhenRootsPresent ==
    (rresult # NoResolve /\ \A i \in DOMAIN rroots : rroots[i] \in DOMAIN rformulas) =>
        LET cl == Closure
            cyc == OnCycle(cl)
        IN  cyc # {} =>
                /\ rresult.kind = "DependencyCycle"
                /\ rresult.cycle = cl \ {rresult.ordered[i] : i \in DOMAIN rresult.ordered}
                /\ cyc \subseteq rresult.cycle

\* The cycle 2 -> 3 -> 2 below root 1 was reported: nothing could be ordered,
\* so the error carries 1, 2 and 3.
C17_Witness ==
    /\ rroots = <<1>>
    /\ DOMAIN rformulas = Names
    /\ rformulas[1] = <<2>>
    /\ rformulas[2] = <<3>>
    /\ rformulas[3] = <<2>>
    /\ rresult.kind = "DependencyCycle"
    /\ rresult.cycle = {1, 2, 3}

\* The orders of closure cl in which every in-map dependency stands before
\* its dependent.
TopologicalOrders(cl) ==
    {p \in [1..Cardinality(cl) -> cl] :
        /\ \A i, j \in DOMAIN p : p[i] = p[j] => i = j
        /\ \A i \in DOMAIN p : \A d \in InMapDeps(p[i]) : \E j \in 1..(i - 1) : p[j] = d}

\* p is the same as q or has the smaller name at the first difference.
LexLeq(p, q) ==
    \/ p = q
    \/ \E i \in DOMAIN p : p[i] < q[i] /\ \A j \in 1..(i - 1) : p[j] = q[j]

\* C35: when every root has a formula and the closure has no cycle, the
\* output is the lexicographically smallest topological order of the closure,
\* which depends on the set of roots and the sets of dependencies only, not
\* on how the lists are ordered.
C35_SmallestTopologicalOrder ==
    (/\ rresult # NoResolve
     /\ \A i \in DOMAIN rroots : rroots[i] \in DOMAIN rformulas
     /\ OnCycle(Closure) = {}) =>
        /\ rresult.kind = "Ok"
        /\ Len(rresult.ordered) = Cardinality(Closure)
        /\ \A p \in TopologicalOrders(Closure) : LexLeq(rresult.ordered, p)

\* C39: resolve_closure fails with DependencyCycle only when some member of
\* the closure of the roots reaches itself through in-map dependencies.
C39_CycleOnlyIfCyclic ==
    rresult.kind = "DependencyCycle" => OnCycle(Closure) # {}

\* C34: fetch_all_formulas returns for every list of names and everything
\* the API may serve, and no name is requested twice.
C34_EachNameOnce ==
    rresult # NoResolve =>
        /\ rresult.kind \in {"Ok", "Err"}
        /\ \A i, j \in DOMAIN rresult.requests :
              rresult.requests[i] = rresult.requests[j] => i = j

(***************************************************************************)
(*                         CLAIMS ABOUT THE LINKER                         *)
(***************************************************************************)

\* What resolving the destination <prefix>/f finds, following a directory
\* symlink at share/man: nothing, a foreign file, or Link(k): keg k's file
\* (or a symlink into k that dangles).
Occupant(f) ==
    IF f \in Nested
    THEN CASE pdir.kind = "dir" -> pfile[f]
           [] pdir.kind = "link" ->
                  IF f \in KegFiles(pdir.keg) THEN Link(pdir.keg) ELSE NoNode
           [] OTHER -> NoNode
    ELSE pfile[f]

\* C18: when some destination of a keg's files is occupied by something that
\* does not resolve to the keg's own file, link_keg fails with one
\* LinkConflict that lists every such destination, and it leaves the prefix
\* as it was: no overlay symlink and no opt link is added.
C18_ConflictCreatesNothing ==
    [][ llast'.op = "link" =>
          LET keg == llast'.keg
              conflicting == {f \in KegFiles(keg) : Occupant(f) \notin {NoNode, Link(keg)}}
          IN  conflicting # {} =>
                /\ llast'.kind = "LinkConflict"
                /\ llast'.conflicts = conflicting
                /\ UNCHANGED <<pfile, pdir, popt>>
      ]_vars

\* bar was refused because bin/foo belongs to foo and a foreign file sits at
\* share/man/bar.1; both are listed, and neither bar's free file bin/bar nor
\* opt/bar was linked.
C18_Witness ==
    /\ llast = [op |-> "link", keg |-> Keg("bar", <<"1.0.0">>), kind |-> "LinkConflict",
                conflicts |-> {"bin/foo", "share/man/bar.1"}, linked |-> FALSE]
    /\ pfile["bin/foo"] = Link(Keg("foo", <<"1.0.0">>))
    /\ pfile["share/man/bar.1"] = Plain("file")
    /\ pfile["bin/bar"] = NoNode
    /\ popt["bar"] = NoKeg

C37_UnlinkOnlyOwn ==
    [][ llast'.op = "unlink" =>
          LET keg == llast'.keg
          IN  /\ \A f \in LFiles : pfile'[f] # pfile[f] => pfile[f] = Link(keg)
              /\ pdir' # pdir => pdir \in {Link(keg), Plain("dir")}
              /\ \A n \in DOMAIN popt :
                    popt'[n] # popt[n] => (n = keg.name /\ popt[n] = keg)
      ]_vars

\* The destination f of keg k is reachable under the prefix through a file
\* symlink of its own, below a real directory.
Reachable(f, k) ==
    IF f = "share/man" THEN pdir = Link(k)
    ELSE /\ pfile[f] = Link(k)
         /\ f \in Nested => pdir = Plain("dir")

\* Nothing is at destination f, and where f lies in share/man, share/man is
\* absent, a directory, or a symlink to something a keg has there.
Free(f) ==
    IF f = "share/man" THEN pdir = NoNode
    ELSE /\ Occupant(f) = NoNode
         /\ f \in Nested =>
               \/ pdir.kind \in {"none", "dir"}
               \/ pdir.kind = "link" /\ ManEntry(pdir.keg) # "none"

\* link_keg of keg b right after the successful link_keg of keg a, the
\* destinations of b being free, succeeds and leaves every destination of
\* both kegs reachable.
SecondLinks(a, b) ==
    ( /\ llast.op = "link" /\ llast.keg = a /\ llast.kind = "Ok"
      /\ \A f \in Destinations(b) : Free(f)
      /\ llast'.op = "link" /\ llast'.keg = b ) =>
        /\ llast'.kind = "Ok"
        /\ \A f \in Destinations(a) : Reachable(f, a)'
        /\ \A f \in Destinations(b) : Reachable(f, b)'

\* C38: when keg a has just been linked and every destination of keg b,
\* whose destinations are all different from a's, is free, link_keg of b
\* succeeds too, and then every file of a and of b is reachable through its
\* own file symlink, the entries of share/man side by side in one directory.
C38_DistinctKegsMerge ==
    [][ \A a, b \in MergeKegs :
          (a # b /\ Destinations(a) \cap Destinations(b) = {}) => SecondLinks(a, b)
      ]_vars

\* The same where no file of a keg is linked at a place at which b has a
\* directory: this holds.
DirectoriesMerge ==
    [][ \A a, b \in MergeKegs :
          ( /\ a # b /\ Destinations(a) \cap Destinations(b) = {}
            /\ ~(ManEntry(b) = "file" /\ ManEntry(a) \in {"dir", "dirlink"})
            /\ ~( /\ ManEntry(b) \in {"dir", "dirlink"}
                  /\ pdir.kind = "link" /\ ManEntry(pdir.keg) = "file" ) ) =>
              SecondLinks(a, b)
      ]_vars

\* baz, whose share/man is a symlink to a directory, was linked after foo
\* 1.0.0: both man pages are file links in the one directory share/man.
DirectoriesMerged ==
    /\ llast.op = "link" /\ llast.keg = Keg("baz", <<"1.0.0">>) /\ llast.kind = "Ok"
    /\ \A f \in KegFiles(Keg("foo", <<"1.0.0">>)) : Reachable(f, Keg("foo", <<"1.0.0">>))
    /\ \A f \in KegFiles(Keg("baz", <<"1.0.0">>)) : Reachable(f, Keg("baz", <<"1.0.0">>))
    /\ popt["foo"] = Keg("foo", <<"1.0.0">>) /\ popt["baz"] = Keg("baz", <<"1.0.0">>)

(***************************************************************************)
(*                       CLAIMS ABOUT THE EXTRACTION                       *)
(***************************************************************************)

\* C20: an entry whose path starts with '/' or has a ".." segment is rejected
\* with StoreCorruption and nothing is written; any other entry is accepted
\* and written at the normalized destination followed by the path's named
\* segments; nothing is ever written outside the normalized destination.
C20_TraversalRejected ==
    eres # NoExtract =>
        LET absolute == Len(epath) > 1 /\ epath[1] = ""
            dotdot == \E i \in DOMAIN epath : epath[i] = ".."
            named == SelectSeq(epath, LAMBDA s : s \notin {"", ".", ".."})
        IN  /\ (absolute \/ dotdot) =>
                  eres = [kind |-> "StoreCorruption", written |-> NoWrite]
            /\ ~(absolute \/ dotdot) =>
                  eres = [kind |-> "Ok", written |-> normalize_path(edest) \o named]
            /\ eres.written # NoWrite =>
                  starts_with(eres.written, normalize_path(edest))

\* The entry a/../../a, which would land beside the destination /d, was
\* rejected and nothing was written.
C20_Witness ==
    /\ edest = <<"", "d">>
    /\ epath = <<"a", "..", "..">>
    /\ eres = [kind |-> "StoreCorruption", written |-> NoWrite]

(***************************************************************************)
(*                      CLAIMS ABOUT THE DOWNLOADER                        *)
(***************************************************************************)

\* A request that inserted its sender and has not yet broadcast its result.
Downloading(r) == dpc[r] \in {"acquire", "check", "head", "race", "notify"}

\* HTTP requests of the engine that are in flight: HEAD probes, GETs waiting
\* for their response and GETs whose body is being read.
InFlightRequests ==
    Cardinality({r \in Reqs : dpc[r] = "head"})
        + Cardinality({x \in Reqs \X Racers : racer[x[1]][x[2]] \in {"get", "body"}})

C7_GlobalCap == InFlightRequests <= cap

\* Range requests of the file that are in flight: the bytes=0-0 probe and the
\* requests of the chunk tasks.
RangeRequests ==
    (IF cpc = "probe" THEN 1 ELSE 0)
        + Cardinality({i \in DOMAIN ctask : cpc = "tasks" /\ ctask[i].st = "get"})

\* C8: during a chunked download at most MAX_CONCURRENT_CHUNKS (6) range
\* requests of the file are in flight, whatever its size and chunk count.
C8_ChunksPerFile == RangeRequests <= MAX_CONCURRENT_CHUNKS

\* The racing tasks that are reading a response body into the part file of
\* sha s, over every request for s.
Writers(s) == {<<r, i>> \in Reqs \X Racers : ShaOf(r) = s /\ racer[r][i] = "body"}

\* C27: at most one racing task at a time writes the part file of a sha.
C27_OneWriter == \A s \in Shas : Cardinality(Writers(s)) <= 1

\* One task writes while another task of the same race, which has its
\* response, waits at the body gate.
C27_Witness ==
    \E r \in Reqs : \E i, j \in Racers :
        /\ racer[r][i] = "body"
        /\ racer[r][j] = "gate"

\* C28: a racing task reports success only with the blob in place; a
\* download that has returned success has the blob of its sha at the path it
\* returned; a download that is returning an error has no blob, so none of
\* its tasks committed or found one; and once the download has returned,
\* none of its tasks is running.
C28_RaceResult ==
    \A r \in Reqs :
        /\ \A i \in Racers :
              racer[r][i] \in {"ok", "committed"} => ShaOf(r) \in blobs
        /\ dres[r].ok =>
              ShaOf(r) \in blobs /\ dres[r].path = blob_path(ShaOf(r))
        /\ (dpc[r] = "notify" /\ ~dres[r].ok) => ShaOf(r) \notin blobs
        /\ dpc[r] \in {"notify", "done"} =>
              \A i \in Racers : racer[r][i] = "idle"

\* A task has committed the blob and returned Ok while a later task of the
\* same race has its GET in flight and the first one has failed: the race is
\* about to return success and abort the rest.
C28_Witness ==
    \E r \in Reqs : \E i, j, k \in Racers :
        /\ dpc[r] = "race"
        /\ racer[r][i] = "err"
        /\ racer[r][j] = "ok"
        /\ racer[r][k] = "get"
        /\ done[r]
        /\ ShaOf(r) \in blobs

\* C31: the ranges of a file of any size above 0 start at offset 0, each
\* starts where the one before ends, the last ends at the file size, and
\* every range has the size file_size / 6 clamped to 5..20 MiB, except that
\* the last may be smaller (and not empty).
C31_RangesPartition ==
    cpc = "ranged" =>
        LET n == Len(ctask)
            q == csize \div 6
            c == IF q < 5 * MiB THEN 5 * MiB ELSE IF q > 20 * MiB THEN 20 * MiB ELSE q
        IN  /\ n >= 1
            /\ ctask[1].offset = 0
            /\ \A i \in 1..(n - 1) :
                  /\ ctask[i].size = c
                  /\ ctask[i + 1].offset = ctask[i].offset + ctask[i].size
            /\ ctask[n].size >= 1 /\ ctask[n].size <= c
            /\ ctask[n].offset + ctask[n].size = csize

\* A file of 121 MiB less one byte: chunks of 20 MiB and a shorter last one.
C31_Witness ==
    /\ cpc = "ranged"
    /\ csize = 121 * MiB - 1
    /\ Len(ctask) = 7
    /\ ctask[7] = [offset |-> 120 * MiB, size |-> MiB - 1]

\* C32: download_chunk sends at most 4 requests; after the k-th request
\* failed with a 5xx or a network error it sleeps 100 * 2^(k-1) ms and tries
\* again, except after the fourth, where it returns NetworkFailure; and when
\* the chunk has failed the download returns NetworkFailure and leaves no
\* blob.
C32_RetriesBounded ==
    /\ Len(sent) <= MAX_CHUNK_RETRIES + 1
    /\ \A k \in DOMAIN sent :
          IF sent[k].status \in {"5xx", "neterr"}
          THEN IF k <= MAX_CHUNK_RETRIES
               THEN /\ sent[k].slept = 100 * 2^(k - 1)
                    /\ k < Len(sent) \/ qpc = "c_send"
               ELSE sent[k].slept = 0 /\ qres = "NetworkFailure"
          ELSE sent[k].slept = 0
    /\ qres = "NetworkFailure" =>
          /\ ~blob.exists
          /\ wpc = "done" => bresult = "NetworkFailure"

\* Four requests failed, with backoffs of 100, 200 and 400 ms between them;
\* the chunk and then the download returned NetworkFailure.
C32_Witness ==
    /\ Len(sent) = 4
    /\ \A k \in 1..4 : sent[k].status \in {"5xx", "neterr"}
    /\ <<sent[1].slept, sent[2].slept, sent[3].slept>> = <<100, 200, 400>>
    /\ qres = "NetworkFailure"
    /\ chandles = <<"err", "sent">>
    /\ wpc = "done" /\ bresult = "NetworkFailure" /\ ~blob.exists /\ ~part.exists

\* C33: a request that carried a cached token and was answered 401 is
\* followed, if a request follows at all, by one carrying a different token,
\* and a 401 to the request after a 401 ends the call with NetworkFailure.
C33_RefreshOnce ==
    \A k \in DOMAIN sent :
        /\ (sent[k].status = "401" /\ sent[k].token # 0 /\ k < Len(sent)) =>
              sent[k + 1].token \notin {0, sent[k].token}
        /\ (k > 1 /\ sent[k].status = "401" /\ sent[k - 1].status = "401") =>
              (k = Len(sent) /\ qres = "NetworkFailure")

\* C23: a download submitted to the parallel downloader never comes to a
\* halt before it has returned its result: until then some step of it (a
\* permit taken, a request answered, a task ending) is always possible.
C23_NoDeadlock == cpc # "returned" => ENABLED NextShared

\* C24: the request gets exactly one message, a success carrying its index;
\* the receive loop ends only after it has handled that message, and until it
\* has ended some step of the download, the task or the loop is possible.
C24_EveryRequestHandledOnce ==
    /\ Len(schan) + Len(shandled) <= 1
    /\ \A i \in DOMAIN shandled : shandled[i].index = StreamIndex
    /\ srx = "closed" => Len(shandled) = 1
    /\ srx # "closed" => ENABLED NextStreaming

\* C40: a request that subscribed to an in-flight download and has returned
\* holds what the request that did the download returned: Ok with the same
\* blob path, or an error of the same kind.
C40_SubscribersSeeSameOutcome ==
    \A r \in Reqs :
        (dpc[r] = "done" /\ leaderOf[r] # 0) =>
            /\ dres[r].ok = dres[leaderOf[r]].ok
            /\ dres[r].path = dres[leaderOf[r]].path
            /\ dres[r].err = dres[leaderOf[r]].err

(***************************************************************************)
(*                      CLAIMS ABOUT THE BLOB CACHE                        *)
(***************************************************************************)

\* C9: a download into the blob cache that met no network or I/O error
\* succeeds iff the sha256 of the received bytes equals the expected key; a
\* success leaves the received bytes under blobs/, a mismatch fails with
\* ChecksumMismatch, and no failure leaves a blob or a part file behind.
C9_ChecksumDecides ==
    wpc = "done" =>
        /\ bresult # "NetworkFailure" =>
              (bresult = "ok" <=> sha256(received) = bkey)
        /\ bresult = "ok" => (blob = File(received) /\ ~part.exists)
        /\ bresult # "ok" =>
              (bresult \in {"ChecksumMismatch", "NetworkFailure"}
                  /\ ~blob.exists /\ ~part.exists)

\* A body of two chunks was received whole and its digest differs from the
\* key: the download returned ChecksumMismatch.
C9_Witness ==
    /\ wpc = "done" /\ bresult = "ChecksumMismatch"
    /\ Len(received) > MaxChunkLen /\ payload = <<>>
    /\ sha256(received) # bkey

C30_WrittenInOffsetOrder ==
    chandles # <<>> =>
        /\ part.exists =>
              /\ next_expected_offset <= file_size
              /\ part.data = SubSeq(Flatten(payload), 1, next_expected_offset)
        /\ wpc = "recv" =>
              /\ DOMAIN received_chunks =
                    {OffsetOf(i) : i \in {j \in DOMAIN chandles :
                        chandles[j] = "sent" /\ OffsetOf(j) >= next_expected_offset}}
              /\ \A o \in DOMAIN received_chunks : o > next_expected_offset
              /\ \A i \in DOMAIN chandles :
                    OffsetOf(i) \in DOMAIN received_chunks =>
                        received_chunks[OffsetOf(i)] = payload[i]
              /\ chunks_written =
                    Cardinality({i \in DOMAIN chandles : chandles[i] = "sent"})
        /\ bresult = "ok" =>
              /\ \A i \in DOMAIN chandles : chandles[i] = "sent"
              /\ chunks_written = Len(payload)
              /\ next_expected_offset = file_size
              /\ blob = File(Flatten(payload))
              /\ sha256(Flatten(payload)) = bkey

\* The last chunk arrived first and waits in the map while nothing has been
\* written yet.
C30_Witness ==
    /\ wpc = "recv"
    /\ next_expected_offset = 0
    /\ part = File(<<>>)
    /\ chandles[Len(payload)] = "sent"
    /\ chandles[1] = "run"
    /\ DOMAIN received_chunks = {OffsetOf(Len(payload))}
    /\ payload[1] # payload[Len(payload)]

====
